---- MODULE Spec2Model ----
(***************************************************************************)
(* A model of the SPF engine of src-tauri/src/spf.rs: the record parser    *)
(* (parse_spf), the recursive evaluator (simulate_spf with its nested      *)
(* eval_mechanism) and the inclusion-graph builder (build_spf_graph with   *)
(* its nested walk); and of the topology resolver of                       *)
(* src-tauri/src/commands.rs: the chain resolution of one host             *)
(* (resolve_chain_for_host) and the batch command with its host cache      *)
(* (resolve_topology_batch).                                               *)
(*                                                                         *)
(* Text is modelled as a sequence of one-character strings, so that the    *)
(* parser works on the characters of a TXT record as the code does.  An    *)
(* Option<T> is a sequence of length 0 (None) or 1 (Some).  A Result is a  *)
(* record with a tag field, "Ok" or "Err".                                 *)
(*                                                                         *)
(* The DNS is the environment.  The TXT answer for a name is fixed the     *)
(* first time the name is asked for (variable zone), so that a run sees    *)
(* one zone; the answers to A/AAAA, MX and PTR queries are drawn at each   *)
(* query.                                                                  *)
(***************************************************************************)
EXTENDS Integers, Sequences, FiniteSets, TLC

(***************************************************************************)
(* Text helpers: the std::str operations parse_spf uses.                   *)
(***************************************************************************)

None == <<>>

Some(v) == <<v>>

UpperChars == <<"A","B","C","D","E","F","G","H","I","J","K","L","M",
                "N","O","P","Q","R","S","T","U","V","W","X","Y","Z">>

LowerChars == <<"a","b","c","d","e","f","g","h","i","j","k","l","m",
                "n","o","p","q","r","s","t","u","v","w","x","y","z">>

\* char::to_lowercase on the characters of the model's alphabet
LowerMap == [c \in {UpperChars[i] : i \in 1..26} |->
                LowerChars[CHOOSE i \in 1..26 : UpperChars[i] = c]]

LowerChar(c) == IF c \in DOMAIN LowerMap THEN LowerMap[c] ELSE c

\* str::to_lowercase
ToLower(s) == [i \in 1..Len(s) |-> LowerChar(s[i])]

\* char::is_whitespace on the characters of the model's alphabet
IsWhitespace(c) == c \in {" ", "\t"}

\* str::starts_with
StartsWith(s, p) == Len(s) >= Len(p) /\ SubSeq(s, 1, Len(p)) = p

\* str::contains(char)
Contains(s, c) == \E i \in 1..Len(s) : s[i] = c

\* the first index from i on where s holds (want) or does not hold (~want)
\* whitespace, Len(s) + 1 when there is none
RECURSIVE ScanWs(_, _, _)
ScanWs(s, i, want) ==
    IF i > Len(s) \/ IsWhitespace(s[i]) = want THEN i ELSE ScanWs(s, i + 1, want)

\* the last index down from i where s does not hold whitespace, 0 when none
RECURSIVE ScanBack(_, _)
ScanBack(s, i) ==
    IF i = 0 \/ ~IsWhitespace(s[i]) THEN i ELSE ScanBack(s, i - 1)

\* str::trim
Trim(s) == SubSeq(s, ScanWs(s, 1, FALSE), ScanBack(s, Len(s)))

\* str::split_whitespace from index i on: the maximal runs of
\* non-whitespace, in order
RECURSIVE SplitFrom(_, _)
SplitFrom(s, i) ==
    LET lo == ScanWs(s, i, FALSE)
        hi == ScanWs(s, lo, TRUE)
    IN  IF lo > Len(s) THEN <<>>
        ELSE <<SubSeq(s, lo, hi - 1)>> \o SplitFrom(s, hi)

SplitWhitespace(s) == SplitFrom(s, 1)

\* the first index from i on where s holds sep, Len(s) + 1 when none
RECURSIVE ScanChar(_, _, _)
ScanChar(s, i, sep) ==
    IF i > Len(s) \/ s[i] = sep THEN i ELSE ScanChar(s, i + 1, sep)

\* the last index down from i where s holds sep, 0 when none
RECURSIVE ScanCharBack(_, _, _)
ScanCharBack(s, i, sep) ==
    IF i = 0 \/ s[i] = sep THEN i ELSE ScanCharBack(s, i - 1, sep)

\* a variant that splits at the last sep
RSplitn2(s, sep) ==
    LET k == ScanCharBack(s, Len(s), sep)
    IN  IF k = 0 THEN <<s>>
        ELSE <<SubSeq(s, 1, k - 1), SubSeq(s, k + 1, Len(s))>>

\* str::splitn(2, sep): the text before the first sep and, when there is a
\* sep, the text after it
Splitn2(s, sep) ==
    LET k == ScanChar(s, 1, sep)
    IN  IF k > Len(s) THEN <<s>>
        ELSE <<SubSeq(s, 1, k - 1), SubSeq(s, k + 1, Len(s))>>

VSpf1 == <<"v","=","s","p","f","1">>

QualifierChars == {"+", "-", "~", "?"}

(***************************************************************************)
(* parse_spf                                                               *)
(***************************************************************************)

\* one token without '=': SPFMechanism {qualifier, mechanism, value}
ParseMechanism(part) ==
    LET first     == IF part = <<>> THEN "+" ELSE part[1]
        qualifier == IF first \in QualifierChars THEN Some(first) ELSE None
        core      == IF qualifier # None THEN Tail(part) ELSE part
        split     == Splitn2(core, ":")
    IN  [qualifier |-> qualifier,
         mechanism |-> ToLower(split[1]),
         value     |-> IF Len(split) = 2 THEN Some(split[2]) ELSE None]

\* one token with '=': SPFModifier {key, value}
ParseModifier(part) ==
    LET split == Splitn2(part, "=")
    IN  [key |-> ToLower(split[1]), value |-> split[2]]

\* the for loop of parse_spf over the whitespace-separated parts: each part
\* is pushed onto modifiers (it contains '=') or onto mechanisms
RECURSIVE ParseParts(_, _, _)
ParseParts(parts, mechanisms, modifiers) ==
    IF parts = <<>> THEN [mechanisms |-> mechanisms, modifiers |-> modifiers]
    ELSE IF Contains(parts[1], "=")
         THEN ParseParts(Tail(parts), mechanisms,
                         Append(modifiers, ParseModifier(parts[1])))
         ELSE ParseParts(Tail(parts),
                         Append(mechanisms, ParseMechanism(parts[1])), modifiers)

\* Option<SPFRecord>
ParseSpf(content) ==
    LET trimmed == Trim(content)
    IN  IF ~StartsWith(ToLower(trimmed), VSpf1) THEN None
        ELSE LET rest   == Trim(SubSeq(trimmed, 7, Len(trimmed)))
                 parsed == ParseParts(SplitWhitespace(rest), <<>>, <<>>)
             IN  Some([version    |-> VSpf1,
                       mechanisms |-> parsed.mechanisms,
                       modifiers  |-> parsed.modifiers])

(***************************************************************************)
(* IP addresses and networks.  An address is [fam, addr] with fam 4 or 6   *)
(* and addr a number of AddrBits bits.  The text of an IPv4 address is one *)
(* digit, that of an IPv6 address ':' and one digit; the text of a network *)
(* is the text of an address, '/', and the digit of its prefix length.     *)
(***************************************************************************)

AddrBits == 2

Pow2(n) == 2^n

DigitChars == <<"0","1","2","3","4","5","6","7">>

IsDigit(c) == \E i \in 1..Len(DigitChars) : DigitChars[i] = c

DigitVal(c) == (CHOOSE i \in 1..Len(DigitChars) : DigitChars[i] = c) - 1

\* IpAddr::from_str: Option<IpAddr>
ParseIpAddr(s) ==
    IF Len(s) = 1 /\ IsDigit(s[1]) /\ DigitVal(s[1]) < Pow2(AddrBits)
    THEN Some([fam |-> 4, addr |-> DigitVal(s[1])])
    ELSE IF Len(s) = 2 /\ s[1] = ":" /\ IsDigit(s[2]) /\ DigitVal(s[2]) < Pow2(AddrBits)
    THEN Some([fam |-> 6, addr |-> DigitVal(s[2])])
    ELSE None

\* IpAddr::to_string
FormatIp(ip) ==
    IF ip.fam = 4 THEN <<DigitChars[ip.addr + 1]>> ELSE <<":", DigitChars[ip.addr + 1]>>

\* IpNet::from_str: Option<IpNet>; the text must hold a '/' and a prefix
\* length of at most the address width
ParseIpNet(s) ==
    LET split == Splitn2(s, "/")
    IN  IF Len(split) # 2 THEN None
        ELSE LET a == ParseIpAddr(split[1])
                 l == split[2]
             IN  IF a = None \/ Len(l) # 1 THEN None
                 ELSE IF ~IsDigit(l[1]) \/ DigitVal(l[1]) > AddrBits THEN None
                 ELSE Some([fam |-> a[1].fam, addr |-> a[1].addr, len |-> DigitVal(l[1])])

\* IpNet::network and IpNet::broadcast: the host bits cleared and set
NetNetwork(net) ==
    LET host == Pow2(AddrBits - net.len) IN (net.addr \div host) * host

NetBroadcast(net) == NetNetwork(net) + Pow2(AddrBits - net.len) - 1

\* IpNet::contains(&IpAddr)
NetContains(net, ip) ==
    /\ net.fam = ip.fam
    /\ NetNetwork(net) <= ip.addr
    /\ ip.addr <= NetBroadcast(net)

\* a variant that never reads the value as a network
IpEqualsValue(ip, cidr) ==
    ParseIpAddr(cidr) # None /\ ip = ParseIpAddr(cidr)[1]

IpMatchesCidr(ip, cidr) ==
    IF ParseIpNet(cidr) # None THEN NetContains(ParseIpNet(cidr)[1], ip)
    ELSE IF ParseIpAddr(cidr) # None THEN ip = ParseIpAddr(cidr)[1]
    ELSE FALSE

(***************************************************************************)
(* The DNS answers.  A TXT answer is Err or Ok with the list of the TXT    *)
(* strings of the name (resolve_txt).                                      *)
(***************************************************************************)

Unknown == [tag |-> "Unknown", records |-> <<>>]

TxtErr == [tag |-> "Err", records |-> <<>>]

TxtOk(records) == [tag |-> "Ok", records |-> records]

\* the names the model's records refer to, and the name "" of an include
\* without a value
NameX == <<"x">>

NameY == <<"y">>

NameZ == <<"z">>

Names == {NameX, NameY, NameZ, <<>>}

\* "v=spf1" followed by the tokens, each after one space
RECURSIVE JoinTokens(_)
JoinTokens(toks) ==
    IF toks = <<>> THEN <<>> ELSE <<" ">> \o toks[1] \o JoinTokens(Tail(toks))

SpfText(toks) == VSpf1 \o JoinTokens(toks)

\* the sequences of at most n elements of S
SeqsUpTo(S, n) == UNION {[1..k -> S] : k \in 0..n}

\* a TXT string that is no SPF record
JunkTxt == <<"k","e","y","=","1">>

\* the TXT answers built from the tokens: a failure, no TXT string, a TXT
\* string that is no SPF record, and every record of at most n tokens
AnswersOver(tokens, n) ==
    {TxtErr, TxtOk(<<>>), TxtOk(<<JunkTxt>>)}
        \cup {TxtOk(<<SpfText(ts)>>) : ts \in SeqsUpTo(tokens, n)}

(***************************************************************************)
(* The zones.  Each specification draws the TXT answers of the names from  *)
(* one family of zones, named by the variable family.                      *)
(***************************************************************************)

(* The zones of the evaluator in general: every name has a record of at    *)
(* most MaxMechs terms, among them an include of y and a redirect to y.    *)
MaxMechs == 2

TokMinusAll == <<"-","a","l","l">>

TokNeutralAll == <<"?","a","l","l">>

TokSoftA == <<"~","a">>

TokPlusIncludeY == <<"+","i","n","c","l","u","d","e",":","y">>

TokIp4Net == <<"i","p","4",":","2","/","1">>

TokRedirectY == <<"r","e","d","i","r","e","c","t","=","y">>

TokUnknown == <<"f","o","o">>

SimTokens == {TokMinusAll, TokNeutralAll, TokSoftA, TokPlusIncludeY, TokIp4Net,
              TokRedirectY, TokUnknown}

SimAnswerSet == AnswersOver(SimTokens, MaxMechs)

(* Zones of nested includes: every name has a record of at most DeepMechs  *)
(* mechanisms, each an a or an include of y or of z.                       *)
DeepMechs == 3

TokA == <<"a">>

TokIncludeY == <<"i","n","c","l","u","d","e",":","y">>

TokIncludeZ == <<"i","n","c","l","u","d","e",":","z">>

DeepTokens == {TokA, TokIncludeY, TokIncludeZ}

DeepAnswerSet == {TxtOk(<<SpfText(ts)>>) : ts \in SeqsUpTo(DeepTokens, DeepMechs)}

(* Zones without include and redirect: the record of x is at most FlatMechs *)
(* mechanisms of every other kind, under every qualifier.                  *)
FlatMechs == 2

FlatAll == <<"a","l","l">>

FlatPlusAll == <<"+","a","l","l">>

FlatMinusAll == <<"-","a","l","l">>

FlatSoftAll == <<"~","a","l","l">>

FlatNeutralAll == <<"?","a","l","l">>

FlatIp4Net == <<"i","p","4",":","2","/","1">>

FlatMinusIp4Net == <<"-","i","p","4",":","2","/","1">>

FlatIp4HostBits == <<"i","p","4",":","1","/","1">>

FlatIp4Addr == <<"i","p","4",":","1">>

FlatSoftIp4Addr == <<"~","i","p","4",":","2">>

FlatIp4NoValue == <<"i","p","4">>

FlatIp4Junk == <<"i","p","4",":","z","z">>

FlatIp6Net == <<"i","p","6",":",":","2","/","1">>

FlatIp6V4Net == <<"?","i","p","6",":","3","/","2">>

FlatUpperIp4Any == <<"I","P","4",":","0","/","0">>

FlatA == <<"a">>

FlatNeutralMx == <<"?","m","x">>

FlatMinusPtr == <<"-","p","t","r">>

FlatExists == <<"e","x","i","s","t","s",":","y">>

FlatUnknown == <<"f","o","o">>

FlatPlusUnknown == <<"+","b","a","r",":","1">>

FlatTokens == {FlatAll, FlatPlusAll, FlatMinusAll, FlatSoftAll,
               FlatNeutralAll, FlatIp4Net, FlatMinusIp4Net, FlatIp4HostBits,
               FlatIp4Addr, FlatSoftIp4Addr, FlatIp4NoValue, FlatIp4Junk,
               FlatIp6Net, FlatIp6V4Net, FlatUpperIp4Any, FlatA,
               FlatNeutralMx, FlatMinusPtr, FlatExists, FlatUnknown,
               FlatPlusUnknown}

\* also every record after a TXT string that is no SPF record
FlatAnswerSet ==
    AnswersOver(FlatTokens, FlatMechs)
        \cup {TxtOk(<<JunkTxt, SpfText(ts)>>) : ts \in SeqsUpTo(FlatTokens, FlatMechs)}

(* Zones for the graph: x has a record of at most GraphMechs terms that    *)
(* include x, y or z or redirect to y; y's terms include z or x or         *)
(* redirect to z; z's terms include x, are an include without a value or a *)
(* redirect to the empty name.  Their edges form cycles of length 1, 2, 3. *)
GraphMechs == 2

TokIncludeX == <<"i","n","c","l","u","d","e",":","x">>

TokRedirectZ == <<"r","e","d","i","r","e","c","t","=","z">>

TokIncludeBare == <<"i","n","c","l","u","d","e">>

TokRedirectEmpty == <<"r","e","d","i","r","e","c","t","=">>

GraphTokens(d) ==
    IF d = NameX THEN {TokIncludeX, TokIncludeY, TokIncludeZ, TokRedirectY}
    ELSE IF d = NameY THEN {TokIncludeZ, TokIncludeX, TokRedirectZ}
    ELSE IF d = NameZ THEN {TokIncludeX, TokIncludeBare, TokRedirectEmpty}
    ELSE {}

GraphAnswerSets == [d \in Names |-> AnswersOver(GraphTokens(d), GraphMechs)]

(* Zones that are one line of distinct names: x, then the first MaxLine    *)
(* letters, each name's record an include of or a redirect to the next     *)
(* name, or the end of the line.                                           *)
MaxLine == 12

LineName(i) == IF i = 0 THEN NameX ELSE <<LowerChars[i]>>

LineNames == {LineName(i) : i \in 0..MaxLine}

LineAnswers(d) ==
    {TxtOk(<<SpfText(<<TokMinusAll>>)>>)} \cup
    UNION {{TxtOk(<<SpfText(<<TokIncludeBare \o <<":">> \o LineName(i + 1)>>)>>),
            TxtOk(<<SpfText(<<TokRedirectEmpty \o LineName(i + 1)>>)>>)}
           : i \in {j \in 0..(MaxLine - 1) : LineName(j) = d}}

(* Zones with cycles: every name has a record of at most one term, an      *)
(* include of or a redirect to x or y, or -all.                            *)
TokRedirectX == <<"r","e","d","i","r","e","c","t","=","x">>

CycleTokens == {TokIncludeX, TokIncludeY, TokRedirectX, TokRedirectY, TokMinusAll}

CycleAnswerSet == AnswersOver(CycleTokens, 1)

(* Zones with a mechanism of every kind: the record of x is at most        *)
(* KindMechs mechanisms, one token for each name eval_mechanism knows, two *)
(* it does not know and an include of y; the other names have records of   *)
(* a and -all.                                                             *)
KindMechs == 2

KindTokens == {FlatAll, FlatIp4Net, FlatIp6Net, FlatA, FlatNeutralMx, FlatMinusPtr,
               FlatExists, FlatUnknown, FlatPlusUnknown, TokIncludeY}

KindAnswers(d) ==
    IF d = NameX THEN AnswersOver(KindTokens, KindMechs)
    ELSE AnswersOver({FlatA, FlatMinusAll}, 2)

(***************************************************************************)
(* simulate_spf.  The call stack of the recursion is the variable stack;   *)
(* each frame is one activation of simulate_spf.                           *)
(***************************************************************************)

MaxLookups == 10

\* the model's cap on the depth of the recursion of simulate_spf
MaxDepth == 3

SimErr(msg) == [tag |-> "Err", msg |-> msg, result |-> "", reasons |-> <<>>, lookups |-> 0]

\* Ok(SPFSimulation {result, reasons, lookups})
SimOk(result, reasons, lookups) ==
    [tag |-> "Ok", msg |-> "", result |-> result, reasons |-> reasons, lookups |-> lookups]

NoResult == [tag |-> "None", msg |-> "", result |-> "", reasons |-> <<>>, lookups |-> 0]

\* the results of eval_mechanism: Ok(Some(bool)), Ok(None), Err(String)
EvalOk(val) == [tag |-> "Ok", val |-> val, msg |-> ""]

EvalErr(msg) == [tag |-> "Err", val |-> None, msg |-> msg]

NameIp4 == <<"i","p","4">>

NameIp6 == <<"i","p","6">>

NameA == <<"a">>

NameMx == <<"m","x">>

NamePtr == <<"p","t","r">>

NameInclude == <<"i","n","c","l","u","d","e">>

NameExists == <<"e","x","i","s","t","s">>

NameAll == <<"a","l","l">>

KeyRedirect == <<"r","e","d","i","r","e","c","t">>

\* the mechanisms whose arm of eval_mechanism increments the lookup counter
LookupMechanisms == {NameA, NameMx, NamePtr, NameInclude, NameExists}

\* the mechanisms whose arm asks the resolver itself
DnsMechanisms == {NameA, NameMx, NamePtr, NameExists}

\* what the queries of an a, mx, ptr or exists arm come to: the arm finds
\* the IP (exists: any address), finds none, or one of its queries fails
DnsOutcomes == {"match", "nomatch", "err"}

VARIABLES
    zone,        \* name -> TXT answer, Unknown until the name is first asked for
    resolverOk,  \* whether resolver() can build a resolver from the system conf
    family,      \* the family of zones the TXT answers are drawn from
    ps,          \* a call of parse_spf on its own
    stack,       \* the activations of simulate_spf, the innermost last
    simResult,   \* the Result of the outermost simulate_spf, NoResult until then
    mechCount,   \* history: how many a/mx/ptr/include/exists arms have been entered
    gstack,      \* the activations of walk, the innermost last
    nodes,       \* build_spf_graph's nodes
    edges,       \* build_spf_graph's edges
    glookups,    \* build_spf_graph's lookups
    visited,     \* build_spf_graph's visited
    cyclic,      \* build_spf_graph's cyclic
    gresult,     \* the Result of build_spf_graph, NoGraph until it returns
    hc,          \* the activation of resolve_chain_for_host
    doh,         \* the activation of query_doh_records
    calls,       \* the calls of resolve_topology_batch, by call id
    cache,       \* topology_host_cache(): cache key -> TopologyHostCacheEntry
    now,         \* the wall clock, what Utc::now() returns
    readers,     \* the calls that hold the read lock of the cache
    writer       \* the call that holds the write lock of the cache, or NoCall

simVars == <<stack, simResult, mechCount>>

graphVars == <<gstack, nodes, edges, glookups, visited, cyclic, gresult>>

batchVars == <<calls, cache, now, readers, writer>>

topoVars == <<hc, doh, batchVars>>

vars == <<zone, resolverOk, family, ps, simVars, graphVars, topoVars>>

\* the TXT answers the name d can have
Answers(d) ==
    IF family = "sim" THEN SimAnswerSet
    ELSE IF family = "deep" THEN DeepAnswerSet
    ELSE IF family = "flat" THEN FlatAnswerSet
    ELSE IF family = "kinds" THEN KindAnswers(d)
    ELSE IF family = "line" THEN LineAnswers(d)
    ELSE IF family = "cycle" THEN CycleAnswerSet
    ELSE GraphAnswerSets[d]

\* the model's cap on the depth of the recursion on the zones with cycles
MaxNesting == 12

DepthCap == IF family = "cycle" THEN MaxNesting ELSE MaxDepth

\* a new activation simulate_spf(domain, ip).  hist and redir are history:
\* one entry per mechanism the activation has evaluated, and the result its
\* redirect returned
NewFrame(domain, ip) ==
    [domain     |-> domain,
     ip         |-> ip,
     pc         |-> "start",
     lookups    |-> 0,
     mechanisms |-> <<>>,
     modifiers  |-> <<>>,
     idx        |-> 0,
     res        |-> NoResult,
     hist       |-> <<>>,
     redir      |-> NoResult]

Top == stack[Len(stack)]

Caller == stack[Len(stack) - 1]

SetTop(f) == [stack EXCEPT ![Len(stack)] = f]

\* the stack once the innermost activation has returned, its caller now f
PopTo(f) == [SubSeq(stack, 1, Len(stack) - 1) EXCEPT ![Len(stack) - 1] = f]

\* return res from the frame
Returning(f, res) == [f EXCEPT !.pc = "ret", !.res = res]

\* get_spf_record on an Ok answer: the first TXT string that starts with
\* "v=spf1" once lowercased
GetSpfRecord(records) ==
    LET hits == {i \in 1..Len(records) : StartsWith(ToLower(records[i]), VSpf1)}
    IN  IF hits = {} THEN None
        ELSE Some(records[CHOOSE i \in hits : \A j \in hits : i <= j])

\* a variant that takes the qualifier "~" for "-"
QualifierResultSoftAsFail(qualifier) ==
    LET q == IF qualifier = None THEN "+" ELSE qualifier[1]
    IN  IF q \in {"-", "~"} THEN "fail"
        ELSE IF q = "?" THEN "neutral"
        ELSE "pass"

\* the verdict of a matching mechanism, from its qualifier
QualifierResult(qualifier) ==
    LET q == IF qualifier = None THEN "+" ELSE qualifier[1]
    IN  IF q = "-" THEN "fail"
        ELSE IF q = "~" THEN "softfail"
        ELSE IF q = "?" THEN "neutral"
        ELSE "pass"

\* history: mechanism idx came to r (sub: what the nested call of an include
\* returned), which left the counter at lookups
HistEntry(idx, r, sub, lookups) == [idx |-> idx, r |-> r, sub |-> sub, lookups |-> lookups]

\* a variant whose Err arm tells the lookup limit from the other errors and
\* returns those to the caller
LoopArmPropagating(f, m, r, lookups) ==
    LET g == [f EXCEPT !.lookups = lookups]
    IN  IF r.tag = "Err" /\ r.msg = "lookup limit"
        THEN Returning(g, SimOk("permerror", <<"lookup limit reached">>, lookups))
        ELSE IF r.tag = "Err"
        THEN Returning(g, SimErr(r.msg))
        ELSE IF r.val = Some(TRUE)
        THEN Returning(g, SimOk(QualifierResult(m.qualifier),
                                <<<<"matched mechanism", m.mechanism>>>>, lookups))
        ELSE [g EXCEPT !.pc = "loop", !.idx = f.idx + 1]

\* the arms of the match on eval_mechanism's result in the loop of
\* simulate_spf: the frame after mechanism m came to r with the counter at
\* lookups
LoopArm(f, m, r, lookups) ==
    LET g == [f EXCEPT !.lookups = lookups]
    IN  IF r.tag = "Err"
        THEN Returning(g, SimOk("permerror", <<"lookup limit reached">>, lookups))
        ELSE IF r.val = Some(TRUE)
        THEN Returning(g, SimOk(QualifierResult(m.qualifier),
                                <<<<"matched mechanism", m.mechanism>>>>, lookups))
        ELSE [g EXCEPT !.pc = "loop", !.idx = f.idx + 1]

\* the frame after one turn of the loop, with its history
AfterTurn(f, r, sub, lookups) ==
    [LoopArm(f, f.mechanisms[f.idx], r, lookups)
        EXCEPT !.hist = Append(f.hist, HistEntry(f.idx, r, sub, lookups))]

\* the first redirect modifier's value
FindRedirect(modifiers) ==
    LET hits == {i \in 1..Len(modifiers) : modifiers[i].key = KeyRedirect}
    IN  IF hits = {} THEN None
        ELSE Some(modifiers[CHOOSE i \in hits : \A j \in hits : i <= j].value)

\* simulate_spf from its first line to its loop, ans being the TXT answer
\* for the domain: the frame at the loop, or returning
StartFrame(f, ans) ==
    IF ans.tag = "Err" THEN Returning(f, SimErr("txt lookup"))
    ELSE LET txt    == GetSpfRecord(ans.records)
             parsed == IF txt = None THEN None ELSE ParseSpf(txt[1])
         IN  IF parsed = None
             THEN Returning([f EXCEPT !.lookups = 1],
                            SimOk("neutral", <<"no spf record">>, 1))
             ELSE [f EXCEPT !.pc = "loop",
                            !.lookups = 1,
                            !.mechanisms = parsed[1].mechanisms,
                            !.modifiers = parsed[1].modifiers,
                            !.idx = 1]

(* simulate_spf up to its loop: the IP is parsed, the resolver built, the   *)
(* TXT record fetched (one lookup) and parsed.                             *)
SimStart ==
    /\ stack # <<>>
    /\ Top.pc = "start"
    /\ IF ParseIpAddr(Top.ip) = None
       THEN /\ stack' = SetTop(Returning(Top, SimErr("invalid IP address syntax")))
            /\ UNCHANGED zone
       ELSE IF ~resolverOk
       THEN /\ stack' = SetTop(Returning(Top, SimErr("resolver")))
            /\ UNCHANGED zone
       ELSE \E ans \in (IF zone[Top.domain] = Unknown THEN Answers(Top.domain)
                        ELSE {zone[Top.domain]}) :
            /\ zone' = [zone EXCEPT ![Top.domain] = ans]
            /\ stack' = SetTop(StartFrame(Top, ans))
    /\ UNCHANGED <<resolverOk, family, ps, simResult, mechCount, graphVars, topoVars>>

\* a variant in which a mechanism of an unknown name matches
EvalMechanismUnknownMatches(m, ip, lookups, dns) ==
    IF m.mechanism \in {NameIp4, NameIp6}
    THEN IF m.value # None THEN EvalOk(Some(IpMatchesCidr(ip, m.value[1])))
         ELSE EvalOk(Some(FALSE))
    ELSE IF m.mechanism \in DnsMechanisms
    THEN IF lookups + 1 > MaxLookups THEN EvalErr("lookup limit")
         ELSE IF dns = "err" THEN EvalErr("dns")
         ELSE EvalOk(Some(dns = "match"))
    ELSE EvalOk(Some(TRUE))

\* eval_mechanism for the arms that return without a nested call, dns being
\* what the arm's DNS queries come to
EvalMechanism(m, ip, lookups, dns) ==
    IF m.mechanism \in {NameIp4, NameIp6}
    THEN IF m.value # None THEN EvalOk(Some(IpMatchesCidr(ip, m.value[1])))
         ELSE EvalOk(Some(FALSE))
    ELSE IF m.mechanism \in DnsMechanisms
    THEN IF lookups + 1 > MaxLookups THEN EvalErr("lookup limit")
         ELSE IF dns = "err" THEN EvalErr("dns")
         ELSE EvalOk(Some(dns = "match"))
    ELSE IF m.mechanism = NameAll THEN EvalOk(Some(TRUE))
    ELSE EvalOk(None)

\* a variant that counts a lookup for every mechanism
LookupsAfterCountingAll(m, lookups) == lookups + 1

\* the counter after eval_mechanism has run on m
LookupsAfter(m, lookups) ==
    IF m.mechanism \in LookupMechanisms THEN lookups + 1 ELSE lookups

(* One turn of the loop of simulate_spf on a mechanism other than include. *)
EvalStep ==
    /\ stack # <<>>
    /\ Top.pc = "loop"
    /\ Top.idx <= Len(Top.mechanisms)
    /\ Top.mechanisms[Top.idx].mechanism # NameInclude
    /\ LET m == Top.mechanisms[Top.idx]
       IN  \E dns \in (IF m.mechanism \in DnsMechanisms /\ Top.lookups + 1 <= MaxLookups
                       THEN DnsOutcomes ELSE {"none"}) :
              stack' = SetTop(AfterTurn(Top,
                                  EvalMechanism(m, ParseIpAddr(Top.ip)[1], Top.lookups, dns),
                                  NoResult,
                                  LookupsAfter(m, Top.lookups)))
    /\ mechCount' = IF Top.mechanisms[Top.idx].mechanism \in LookupMechanisms
                    THEN mechCount + 1 ELSE mechCount
    /\ UNCHANGED <<zone, resolverOk, family, ps, simResult, graphVars, topoVars>>

(* One turn of the loop on an include mechanism: the counter is            *)
(* incremented and checked, then simulate_spf is called on the target.     *)
EvalInclude ==
    /\ stack # <<>>
    /\ Top.pc = "loop"
    /\ Top.idx <= Len(Top.mechanisms)
    /\ Top.mechanisms[Top.idx].mechanism = NameInclude
    /\ LET m == Top.mechanisms[Top.idx]
           n == Top.lookups + 1
       IN  IF n > MaxLookups
           THEN stack' = SetTop(AfterTurn(Top, EvalErr("lookup limit"), NoResult, n))
           ELSE /\ Len(stack) < DepthCap
                /\ stack' = Append(SetTop([Top EXCEPT !.pc = "wait_inc", !.lookups = n]),
                                   NewFrame(IF m.value # None THEN m.value[1] ELSE <<>>,
                                            FormatIp(ParseIpAddr(Top.ip)[1])))
    /\ mechCount' = mechCount + 1
    /\ UNCHANGED <<zone, resolverOk, family, ps, simResult, graphVars, topoVars>>

\* a variant in which every verdict but fail makes the include match
IncludeResultUnlessFail(res) ==
    IF res.tag = "Err" THEN EvalErr(res.msg) ELSE EvalOk(Some(res.result # "fail"))

\* the include arm after the nested call returned res
IncludeResult(res) ==
    IF res.tag = "Err" THEN EvalErr(res.msg) ELSE EvalOk(Some(res.result = "pass"))

\* the counter of the include arm after the nested call returned res
IncludeLookups(res, lookups) ==
    IF res.tag = "Err" THEN lookups ELSE lookups + res.lookups

(* The nested simulate_spf of an include returns. *)
ReturnInclude ==
    /\ Len(stack) >= 2
    /\ Top.pc = "ret"
    /\ Caller.pc = "wait_inc"
    /\ stack' = PopTo(AfterTurn(Caller, IncludeResult(Top.res), Top.res,
                                IncludeLookups(Top.res, Caller.lookups)))
    /\ UNCHANGED <<zone, resolverOk, family, ps, simResult, mechCount, graphVars, topoVars>>

(* After the loop: no mechanism matched.  A redirect modifier calls        *)
(* simulate_spf on its value; without one the result is neutral.           *)
AfterLoop ==
    /\ stack # <<>>
    /\ Top.pc = "loop"
    /\ Top.idx > Len(Top.mechanisms)
    /\ LET redirect == FindRedirect(Top.modifiers)
       IN  IF redirect # None
           THEN /\ Len(stack) < DepthCap
                /\ stack' = Append(SetTop([Top EXCEPT !.pc = "wait_redir"]),
                                   NewFrame(redirect[1], Top.ip))
           ELSE stack' = SetTop(Returning(Top,
                             SimOk("neutral", <<"no matching mechanism">>, Top.lookups)))
    /\ UNCHANGED <<zone, resolverOk, family, ps, simResult, mechCount, graphVars, topoVars>>

\* a variant that drops the caller's own lookups
RedirectResultAsIs(res, lookups) == res

\* the result of simulate_spf from the result of its redirect
RedirectResult(res, lookups) ==
    IF res.tag = "Err" THEN res
    ELSE SimOk(res.result, res.reasons, lookups + res.lookups)

(* The simulate_spf of a redirect returns. *)
ReturnRedirect ==
    /\ Len(stack) >= 2
    /\ Top.pc = "ret"
    /\ Caller.pc = "wait_redir"
    /\ stack' = PopTo([Returning(Caller, RedirectResult(Top.res, Caller.lookups))
                          EXCEPT !.redir = Top.res])
    /\ UNCHANGED <<zone, resolverOk, family, ps, simResult, mechCount, graphVars, topoVars>>

(* The outermost simulate_spf returns to its caller.  Its frame is kept,   *)
(* as history, with pc "done".                                             *)
ReturnTop ==
    /\ Len(stack) = 1
    /\ Top.pc = "ret"
    /\ simResult' = Top.res
    /\ stack' = SetTop([Top EXCEPT !.pc = "done"])
    /\ UNCHANGED <<zone, resolverOk, family, ps, mechCount, graphVars, topoVars>>

\* the outermost simulate_spf has returned
Done == Len(stack) = 1 /\ stack[1].pc = "done"

(***************************************************************************)
(* build_spf_graph.  The call stack of the recursion of walk is the        *)
(* variable gstack; each frame is one activation of walk.                  *)
(***************************************************************************)

MaxGraphDepth == 10

NoGraph ==
    [tag |-> "None", msg |-> "", nodes |-> <<>>, edges |-> <<>>, lookups |-> 0,
     cyclic |-> FALSE]

GraphErr(msg) ==
    [tag |-> "Err", msg |-> msg, nodes |-> <<>>, edges |-> <<>>, lookups |-> 0,
     cyclic |-> FALSE]

\* Ok(SPFGraph {nodes, edges, lookups, cyclic})
GraphOk(ns, es, lookups, cyc) ==
    [tag |-> "Ok", msg |-> "", nodes |-> ns, edges |-> es, lookups |-> lookups,
     cyclic |-> cyc]

SPFGraphNode(domain, txt) == [domain |-> domain, txt |-> txt]

SPFGraphEdge(from, to, edge_type) == [from |-> from, to |-> to, edge_type |-> edge_type]

\* a variant that does not pass the depth on
WalkFrameNoDepth(domain, depth) ==
    [domain     |-> domain,
     depth      |-> 0,
     pc         |-> "enter",
     mechanisms |-> <<>>,
     modifiers  |-> <<>>,
     mi         |-> 1,
     di         |-> 1,
     res        |-> "None"]

\* a new activation walk(domain, depth); mi and di are the positions of its
\* loops over the mechanisms and over the modifiers
WalkFrame(domain, depth) ==
    [domain     |-> domain,
     depth      |-> depth,
     pc         |-> "enter",
     mechanisms |-> <<>>,
     modifiers  |-> <<>>,
     mi         |-> 1,
     di         |-> 1,
     res        |-> "None"]

GTop == gstack[Len(gstack)]

GCaller == gstack[Len(gstack) - 1]

SetGTop(f) == [gstack EXCEPT ![Len(gstack)] = f]

\* return res, "Ok" or "Err", from the frame
WalkReturning(f, res) == [f EXCEPT !.pc = "ret", !.res = res]

\* the frame's control after a turn of a loop: the loop over the mechanisms
\* ends into the loop over the modifiers, which ends into Ok(())
Advance(f) ==
    LET g == IF f.pc = "mechs" /\ f.mi > Len(f.mechanisms)
             THEN [f EXCEPT !.pc = "mods"] ELSE f
    IN  IF g.pc = "mods" /\ g.di > Len(g.modifiers)
        THEN WalkReturning(g, "Ok") ELSE g

\* a variant that finds no domain visited
NeverVisited(domain, seen) == FALSE

\* visited.contains(domain)
IsVisited(domain, seen) == domain \in seen

(* build_spf_graph up to its call of walk: the resolver is built. *)
BuildStart ==
    /\ gstack = <<>>
    /\ gresult = NoGraph
    /\ IF resolverOk
       THEN /\ gstack' = <<WalkFrame(NameX, 0)>>
            /\ UNCHANGED gresult
       ELSE /\ gresult' = GraphErr("resolver")
            /\ UNCHANGED gstack
    /\ UNCHANGED <<zone, resolverOk, family, ps, simVars, topoVars, nodes, edges, glookups, visited, cyclic>>

(* walk from its first line to its loops: the depth and the visited set    *)
(* are checked, the domain is marked, its TXT record fetched (one lookup), *)
(* its node pushed and its record parsed.                                  *)
WalkEnter ==
    /\ gstack # <<>>
    /\ GTop.pc = "enter"
    /\ IF GTop.depth > MaxGraphDepth
       THEN /\ gstack' = SetGTop(WalkReturning(GTop, "Ok"))
            /\ UNCHANGED <<zone, nodes, glookups, visited, cyclic>>
       ELSE IF IsVisited(GTop.domain, visited)
       THEN /\ cyclic' = TRUE
            /\ gstack' = SetGTop(WalkReturning(GTop, "Ok"))
            /\ UNCHANGED <<zone, nodes, glookups, visited>>
       ELSE /\ visited' = visited \cup {GTop.domain}
            /\ glookups' = glookups + 1
            /\ UNCHANGED cyclic
            /\ \E ans \in (IF zone[GTop.domain] = Unknown THEN Answers(GTop.domain)
                           ELSE {zone[GTop.domain]}) :
                  /\ zone' = [zone EXCEPT ![GTop.domain] = ans]
                  /\ IF ans.tag = "Err"
                     THEN /\ gstack' = SetGTop(WalkReturning(GTop, "Err"))
                          /\ UNCHANGED nodes
                     ELSE LET txt    == GetSpfRecord(ans.records)
                              parsed == IF txt = None THEN None ELSE ParseSpf(txt[1])
                          IN  /\ nodes' = Append(nodes, SPFGraphNode(GTop.domain, txt))
                              /\ gstack' = SetGTop(
                                    IF parsed = None THEN WalkReturning(GTop, "Ok")
                                    ELSE Advance([GTop EXCEPT
                                             !.pc = "mechs",
                                             !.mechanisms = parsed[1].mechanisms,
                                             !.modifiers = parsed[1].modifiers]))
    /\ UNCHANGED <<resolverOk, family, ps, simVars, topoVars, edges, gresult>>

(* One turn of walk's loop over the mechanisms: an include with a value    *)
(* pushes its edge and walks its target.                                   *)
WalkMechanism ==
    /\ gstack # <<>>
    /\ GTop.pc = "mechs"
    /\ GTop.mi <= Len(GTop.mechanisms)
    /\ LET m == GTop.mechanisms[GTop.mi]
       IN  IF m.mechanism = NameInclude /\ m.value # None
           THEN /\ edges' = Append(edges, SPFGraphEdge(GTop.domain, m.value[1], "include"))
                /\ gstack' = Append(SetGTop([GTop EXCEPT !.pc = "wait_mech"]),
                                    WalkFrame(m.value[1], GTop.depth + 1))
           ELSE /\ gstack' = SetGTop(Advance([GTop EXCEPT !.mi = GTop.mi + 1]))
                /\ UNCHANGED edges
    /\ UNCHANGED <<zone, resolverOk, family, ps, simVars, topoVars, nodes, glookups, visited, cyclic, gresult>>

(* One turn of walk's loop over the modifiers: a redirect with a value     *)
(* that is not empty pushes its edge and walks its target.                 *)
WalkModifier ==
    /\ gstack # <<>>
    /\ GTop.pc = "mods"
    /\ GTop.di <= Len(GTop.modifiers)
    /\ LET modif == GTop.modifiers[GTop.di]
       IN  IF modif.key = KeyRedirect /\ modif.value # <<>>
           THEN /\ edges' = Append(edges, SPFGraphEdge(GTop.domain, modif.value, "redirect"))
                /\ gstack' = Append(SetGTop([GTop EXCEPT !.pc = "wait_mod"]),
                                    WalkFrame(modif.value, GTop.depth + 1))
           ELSE /\ gstack' = SetGTop(Advance([GTop EXCEPT !.di = GTop.di + 1]))
                /\ UNCHANGED edges
    /\ UNCHANGED <<zone, resolverOk, family, ps, simVars, topoVars, nodes, glookups, visited, cyclic, gresult>>

\* a variant in which the caller never goes on after its nested walk
ResumeWalkNever(f, res) == f

\* the caller after its nested walk returned res: an Err is returned on,
\* after an Ok the loop that made the call goes on
ResumeWalk(f, res) ==
    IF res = "Err" THEN WalkReturning(f, "Err")
    ELSE IF f.pc = "wait_mech" THEN Advance([f EXCEPT !.pc = "mechs", !.mi = f.mi + 1])
    ELSE Advance([f EXCEPT !.pc = "mods", !.di = f.di + 1])

(* A nested walk returns. *)
WalkReturn ==
    /\ Len(gstack) >= 2
    /\ GTop.pc = "ret"
    /\ gstack' = [SubSeq(gstack, 1, Len(gstack) - 1)
                     EXCEPT ![Len(gstack) - 1] = ResumeWalk(GCaller, GTop.res)]
    /\ UNCHANGED <<zone, resolverOk, family, ps, simVars, topoVars, nodes, edges, glookups, visited, cyclic, gresult>>

(* The outermost walk returns and build_spf_graph returns the graph, or    *)
(* the Err of the walk.  The frame is kept, as history, with pc "done".    *)
BuildReturn ==
    /\ Len(gstack) = 1
    /\ GTop.pc = "ret"
    /\ gresult' = IF GTop.res = "Err" THEN GraphErr("txt lookup")
                  ELSE GraphOk(nodes, edges, glookups, cyclic)
    /\ gstack' = SetGTop([GTop EXCEPT !.pc = "done"])
    /\ UNCHANGED <<zone, resolverOk, family, ps, simVars, topoVars, nodes, edges, glookups, visited, cyclic>>

\* build_spf_graph has returned
GraphReturned == gresult # NoGraph

\* no call of simulate_spf is under way
SimIdle ==
    /\ stack = <<>>
    /\ simResult = NoResult
    /\ mechCount = 0

\* no call of build_spf_graph is under way
GraphIdle ==
    /\ gstack = <<>>
    /\ nodes = <<>>
    /\ edges = <<>>
    /\ glookups = 0
    /\ visited = {}
    /\ cyclic = FALSE
    /\ gresult = NoGraph

(***************************************************************************)
(* parse_spf called on its own: the variable ps is the call, with its      *)
(* argument and, once it has returned, its return value.  tag, parts and   *)
(* layout are history: what the argument was put together from.            *)
(***************************************************************************)

NoParse ==
    [pc |-> "idle", content |-> <<>>, out |-> None, tag |-> <<>>, parts |-> <<>>,
     layout |-> ""]

(* parse_spf from its first line to its return. *)
ParseCall ==
    /\ ps.pc = "start"
    /\ ps' = [ps EXCEPT !.pc = "done", !.out = ParseSpf(ps.content)]
    /\ UNCHANGED <<zone, resolverOk, family, simVars, graphVars, topoVars>>

\* no call of parse_spf on its own
ParseIdle == ps = NoParse

(***************************************************************************)
(* The topology resolver of src-tauri/src/commands.rs.                     *)
(* resolve_chain_for_host: the variable hc is its one activation; every    *)
(* action is the code from one of its lookups to the next.  The lookups    *)
(* are the environment: each draws its outcome when it is made.            *)
(***************************************************************************)

\* the last index down from i where s does not hold a dot, 0 when none
RECURSIVE ScanBackDots(_, _)
ScanBackDots(s, i) ==
    IF i = 0 \/ s[i] # "." THEN i ELSE ScanBackDots(s, i - 1)

\* str::trim_end_matches('.')
TrimEndDots(s) == SubSeq(s, 1, ScanBackDots(s, Len(s)))

\* normalize_domain: trim, strip the trailing dots, lowercase
NormalizeDomain(input) == ToLower(TrimEndDots(Trim(input)))

\* Vec::contains
InSeq(seq, v) == \E i \in 1..Len(seq) : seq[i] = v

\* the loop that pushes the items not yet in the Vec: the first occurrences
RECURSIVE UniquePush(_, _)
UniquePush(out, items) ==
    IF items = <<>> THEN out
    ELSE UniquePush(IF InSeq(out, Head(items)) THEN out ELSE Append(out, Head(items)),
                    Tail(items))

Unique(items) == UniquePush(<<>>, items)

\* the loop that normalizes each item and pushes it unless it is empty or
\* was pushed before
RECURSIVE NormalizedPush(_, _)
NormalizedPush(out, items) ==
    IF items = <<>> THEN out
    ELSE LET v == NormalizeDomain(Head(items))
         IN  NormalizedPush(IF v = <<>> \/ InSeq(out, v) THEN out ELSE Append(out, v),
                            Tail(items))

\* a variant that keeps the repeats: every non-empty normalized item
RECURSIVE NormalizedKeepingRepeats(_)
NormalizedKeepingRepeats(items) ==
    IF items = <<>> THEN <<>>
    ELSE (IF NormalizeDomain(Head(items)) = <<>> THEN <<>>
          ELSE <<NormalizeDomain(Head(items))>>) \o NormalizedKeepingRepeats(Tail(items))

UniqueNormalized(items) == NormalizedPush(<<>>, items)

EmptyHostnameError == "empty hostname"

NoRecordsError == "no CNAME/A/AAAA records found"

HostnameChainResult(name, chain, terminal, ipv4, ipv6, reverse_hostnames, error) ==
    [name |-> name, chain |-> chain, terminal |-> terminal, ipv4 |-> ipv4,
     ipv6 |-> ipv6, reverse_hostnames |-> reverse_hostnames, error |-> error]

ReverseHostnameResult(ip, hostnames) == [ip |-> ip, hostnames |-> hostnames]

\* what a lookup of the primary resolver under its timeout comes to:
\* Err(_) of the timeout, Ok(Err(_)) of the resolver, Ok(Ok(lookup))
LookupTimeout == [tag |-> "timeout", records |-> <<>>]

LookupErr == [tag |-> "err", records |-> <<>>]

LookupOk(records) == [tag |-> "ok", records |-> records]

\* the records a lookup brought, none when it failed
AnswerOf(out) == IF out.tag = "ok" THEN out.records ELSE <<>>

\* history: the query q (about arg) was made and brought an answer or not
Asked(q, arg, got) == [q |-> q, arg |-> arg, got |-> got]

NoChainCall ==
    [pc |-> "idle", host |-> <<>>, max_hops |-> 0, doh_endpoints |-> <<>>,
     disable_ptr_lookups |-> FALSE, name |-> <<>>, chain |-> <<>>, seen |-> {},
     cur |-> <<>>, hops |-> 0, ipv4 |-> <<>>, ipv6 |-> <<>>, all_ips |-> <<>>,
     pi |-> 1, reverse_hostnames |-> <<>>, result |-> None,
     v4 |-> LookupErr, v6 |-> LookupErr, asked |-> <<>>]

\* a new activation of resolve_chain_for_host; v4, v6 and asked are history
NewChainCall(host, max_hops, doh_endpoints, disable_ptr_lookups) ==
    [NoChainCall EXCEPT !.pc = "start", !.host = host, !.max_hops = max_hops,
                        !.doh_endpoints = doh_endpoints,
                        !.disable_ptr_lookups = disable_ptr_lookups]

\* a variant that looks at the IPv4 set alone
UnresolvedV4Only(chain, ipv4, ipv6) == Len(chain) <= 1 /\ ipv4 = <<>>

Unresolved(chain, ipv4, ipv6) == Len(chain) <= 1 /\ ipv4 = <<>> /\ ipv6 = <<>>

\* the end of resolve_chain_for_host: the result is built and returned
Finish(c) ==
    [c EXCEPT !.pc = "done",
              !.result = Some(HostnameChainResult(
                  c.name, c.chain, c.cur, c.ipv4, c.ipv6, c.reverse_hostnames,
                  IF Unresolved(c.chain, c.ipv4, c.ipv6) THEN Some(NoRecordsError)
                  ELSE None))]

\* the loop over all_ips from position pi on, up to its next PTR lookup: an
\* IP text that does not parse is passed over
RECURSIVE NextPtr(_)
NextPtr(c) ==
    IF c.pi > Len(c.all_ips) THEN Finish(c)
    ELSE IF ParseIpAddr(c.all_ips[c.pi]) = None THEN NextPtr([c EXCEPT !.pi = c.pi + 1])
    ELSE [c EXCEPT !.pc = "ptr"]

\* after the address sets are settled: the PTR lookups, unless disabled
AfterAddr(c) ==
    IF c.disable_ptr_lookups THEN Finish(c)
    ELSE NextPtr([c EXCEPT !.all_ips = c.ipv4 \o c.ipv6, !.pi = 1])

\* a variant without the cycle guard
FollowUnguarded(c, next_name) ==
    [c EXCEPT !.chain = Append(c.chain, next_name),
              !.seen = c.seen \cup {next_name},
              !.cur = next_name,
              !.hops = c.hops + 1,
              !.pc = IF c.hops + 1 < c.max_hops THEN "cname" ELSE "addr"]

\* the rest of a turn of the CNAME loop once a next name was found: the
\* cycle guard, the push, and the end of the loop after max_hops turns
Follow(c, next_name) ==
    IF next_name \in c.seen THEN [c EXCEPT !.pc = "addr"]
    ELSE [c EXCEPT !.chain = Append(c.chain, next_name),
                   !.seen = c.seen \cup {next_name},
                   !.cur = next_name,
                   !.hops = c.hops + 1,
                   !.pc = IF c.hops + 1 < c.max_hops THEN "cname" ELSE "addr"]

(* resolve_chain_for_host up to its loop: the host is normalized; an empty *)
(* name returns at once.                                                   *)
ChainStart ==
    /\ hc.pc = "start"
    /\ LET name == NormalizeDomain(hc.host)
       IN  hc' = IF name = <<>>
                 THEN [hc EXCEPT !.pc = "done",
                                 !.result = Some(HostnameChainResult(
                                     name, <<>>, <<>>, <<>>, <<>>, <<>>,
                                     Some(EmptyHostnameError)))]
                 ELSE [hc EXCEPT !.name = name, !.chain = <<name>>, !.seen = {name},
                                 !.cur = name,
                                 !.pc = IF hc.max_hops > 0 THEN "cname" ELSE "addr"]
    /\ UNCHANGED <<zone, resolverOk, family, ps, simVars, graphVars, doh, batchVars>>

\* the outcomes of the CNAME lookup of the primary resolver
CnameOutcomes ==
    {LookupTimeout, LookupErr, LookupOk(<<>>), LookupOk(<< <<".">> >>),
     LookupOk(<< <<"a">> >>), LookupOk(<< <<"B", ".">>, <<"c">> >>),
     LookupOk(<< <<"c">> >>)}

\* what query_doh_records returns: nothing without endpoints; with them
\* nothing, or the answers of an endpoint (CNAME answers come normalized)
DohAnswers(doh_endpoints, record_type) ==
    IF doh_endpoints = <<>> THEN {<<>>}
    ELSE IF record_type = "CNAME" THEN {<<>>, << <<"c">> >>, << <<"b">>, <<"c">> >>}
    ELSE IF record_type = "A" THEN {<<>>, << <<"2">> >>, << <<"z">>, <<"2">> >>}
    ELSE {<<>>, << <<":", "2">> >>}

\* the outcomes of the A and of the AAAA lookup of the primary resolver
V4Outcomes ==
    {LookupTimeout, LookupErr, LookupOk(<< <<"1">> >>),
     LookupOk(<< <<"1">>, <<"1">>, <<"2">> >>)}

V6Outcomes == {LookupTimeout, LookupErr, LookupOk(<< <<":", "1">> >>)}

\* the outcomes of a reverse lookup
PtrOutcomes ==
    {LookupTimeout, LookupErr, LookupOk(<< <<".">> >>),
     LookupOk(<< <<"P", ".">>, <<"p">> >>)}

\* the candidate next name of the primary CNAME lookup: its first record,
\* normalized, unless that is empty
DirectNext(out) ==
    IF AnswerOf(out) = <<>> THEN None
    ELSE IF NormalizeDomain(AnswerOf(out)[1]) = <<>> THEN None
    ELSE Some(NormalizeDomain(AnswerOf(out)[1]))

(* A turn of the CNAME loop: the lookup of the primary resolver.  Without  *)
(* a next name from it the DoH fallback is asked.                          *)
CnameLookup ==
    /\ hc.pc = "cname"
    /\ \E out \in CnameOutcomes :
          LET c == [hc EXCEPT !.asked = Append(hc.asked,
                                   Asked("cname", hc.cur, DirectNext(out) # None))]
          IN  hc' = IF DirectNext(out) # None THEN Follow(c, DirectNext(out)[1])
                    ELSE [c EXCEPT !.pc = "cname_doh"]
    /\ UNCHANGED <<zone, resolverOk, family, ps, simVars, graphVars, doh, batchVars>>

(* The same turn of the loop after its DoH fallback: without a next name   *)
(* the loop ends.                                                          *)
CnameDoh ==
    /\ hc.pc = "cname_doh"
    /\ \E ans \in DohAnswers(hc.doh_endpoints, "CNAME") :
          LET c == [hc EXCEPT !.asked = Append(hc.asked,
                                   Asked("doh_cname", hc.cur, ans # <<>>))]
          IN  hc' = IF ans = <<>> THEN [c EXCEPT !.pc = "addr"]
                    ELSE Follow(c, ans[1])
    /\ UNCHANGED <<zone, resolverOk, family, ps, simVars, graphVars, doh, batchVars>>

(* The A and the AAAA lookup of the terminal name, joined. *)
AddrLookup ==
    /\ hc.pc = "addr"
    /\ \E v4 \in V4Outcomes, v6 \in V6Outcomes :
          LET c == [hc EXCEPT !.ipv4 = Unique(AnswerOf(v4)),
                              !.ipv6 = Unique(AnswerOf(v6)),
                              !.v4 = v4,
                              !.v6 = v6,
                              !.asked = hc.asked \o
                                   <<Asked("a", hc.cur, AnswerOf(v4) # <<>>),
                                     Asked("aaaa", hc.cur, AnswerOf(v6) # <<>>)>>]
          IN  hc' = IF c.ipv4 = <<>> \/ c.ipv6 = <<>> THEN [c EXCEPT !.pc = "addr_doh"]
                    ELSE AfterAddr(c)
    /\ UNCHANGED <<zone, resolverOk, family, ps, simVars, graphVars, doh, batchVars>>

(* The DoH fallbacks of the address families that are still empty, joined. *)
AddrDoh ==
    /\ hc.pc = "addr_doh"
    /\ \E doh_v4 \in (IF hc.ipv4 = <<>> THEN DohAnswers(hc.doh_endpoints, "A")
                      ELSE {<<>>}),
          doh_v6 \in (IF hc.ipv6 = <<>> THEN DohAnswers(hc.doh_endpoints, "AAAA")
                      ELSE {<<>>}) :
          hc' = AfterAddr([hc EXCEPT
                    !.ipv4 = IF hc.ipv4 = <<>> THEN doh_v4 ELSE hc.ipv4,
                    !.ipv6 = IF hc.ipv6 = <<>> THEN doh_v6 ELSE hc.ipv6,
                    !.asked = hc.asked \o
                        (IF hc.ipv4 = <<>>
                         THEN <<Asked("doh_a", hc.cur, doh_v4 # <<>>)>> ELSE <<>>) \o
                        (IF hc.ipv6 = <<>>
                         THEN <<Asked("doh_aaaa", hc.cur, doh_v6 # <<>>)>> ELSE <<>>)])
    /\ UNCHANGED <<zone, resolverOk, family, ps, simVars, graphVars, doh, batchVars>>

\* a variant that gives up the remaining IPs when a reverse lookup brings
\* no name
AfterPtrStopOnEmpty(c, names) ==
    IF names = <<>> THEN Finish(c)
    ELSE NextPtr([c EXCEPT !.reverse_hostnames =
                               Append(c.reverse_hostnames,
                                      ReverseHostnameResult(c.all_ips[c.pi], names)),
                           !.pi = c.pi + 1])

\* the turn of the loop over all_ips after its reverse lookup brought names
AfterPtr(c, names) ==
    NextPtr([c EXCEPT !.reverse_hostnames =
                          IF names = <<>> THEN c.reverse_hostnames
                          ELSE Append(c.reverse_hostnames,
                                      ReverseHostnameResult(c.all_ips[c.pi], names)),
                      !.pi = c.pi + 1])

(* The reverse lookup of one IP. *)
PtrLookup ==
    /\ hc.pc = "ptr"
    /\ \E out \in PtrOutcomes :
          LET names == UniqueNormalized(AnswerOf(out))
          IN  hc' = AfterPtr([hc EXCEPT !.asked = Append(hc.asked,
                                  Asked("ptr", hc.all_ips[hc.pi], names # <<>>))],
                             names)
    /\ UNCHANGED <<zone, resolverOk, family, ps, simVars, graphVars, doh, batchVars>>

\* resolve_chain_for_host has returned
ChainDone == hc.pc = "done"

\* no call of resolve_chain_for_host is under way
ChainIdle == hc = NoChainCall

(***************************************************************************)
(* query_doh_records: the variable doh is its one activation.  The tasks   *)
(* of its JoinSet run beside it and are numbered in the order they were    *)
(* spawned; ready is the queue of the tasks that have completed and that   *)
(* join_next has not handed out yet.                                       *)
(***************************************************************************)

\* a variant that takes every item
TakeAll(seq, n) == seq

\* Iterator::take
Take(seq, n) == SubSeq(seq, 1, IF Len(seq) < n THEN Len(seq) ELSE n)

\* the number of endpoints one query races
DohRace == 3

\* the ways the request of query_one_doh fails: the timeout of send, its
\* error, a status that is no success, the timeout of json, its error
DohFailures == {"send_timeout", "send_err", "status", "json_timeout", "json_err"}

DohFailure(tag) == [tag |-> tag, answer |-> None]

\* a DnsGoogleResponse that arrived and parsed
DohPayload(answer) == [tag |-> "payload", answer |-> answer]

DnsGoogleAnswer(data) == [data |-> data]

\* the loop of query_one_doh over the answers of the payload
RECURSIVE DohCollect(_, _, _)
DohCollect(out, answers, record_type) ==
    IF answers = <<>> THEN out
    ELSE LET data == Head(answers).data
             raw == Trim(IF data = None THEN <<>> ELSE data[1])
             value == IF record_type = "CNAME" THEN NormalizeDomain(raw) ELSE raw
         IN  DohCollect(IF raw = <<>> \/ value = <<>> \/ InSeq(out, value) THEN out
                        ELSE Append(out, value),
                        Tail(answers), record_type)

\* query_one_doh, from the response of its endpoint
QueryOneDoh(resp, record_type) ==
    IF resp.tag # "payload" THEN None
    ELSE LET out == DohCollect(<<>>, IF resp.answer = None THEN <<>> ELSE resp.answer[1],
                               record_type)
         IN  IF out # <<>> THEN Some(out) ELSE None

\* what join_next hands out for a task: Ok of its return value, or the
\* JoinError of a task that panicked
JoinOk(val) == [tag |-> "ok", val |-> val]

JoinErr == [tag |-> "err", val |-> None]

Joined(task, joined) == [task |-> task, joined |-> joined]

\* no query under way.  spawned, completed and aborted are history: the
\* endpoints of the tasks spawned, the tasks in the order they completed,
\* and the tasks that were running when the JoinSet was dropped.
NoDohQuery ==
    [pc |-> "idle", doh_endpoints |-> <<>>, record_type |-> "", running |-> {},
     ready |-> <<>>, result |-> None, spawned |-> <<>>, completed |-> <<>>,
     aborted |-> {}]

NewDohQuery(doh_endpoints, record_type) ==
    [NoDohQuery EXCEPT !.pc = "start", !.doh_endpoints = doh_endpoints,
                       !.record_type = record_type]

\* the responses an endpoint can give
DohResponses ==
    {DohFailure(tag) : tag \in DohFailures} \cup
    {DohPayload(None),
     DohPayload(Some(<<DnsGoogleAnswer(None), DnsGoogleAnswer(Some(<<" ">>))>>)),
     DohPayload(Some(<<DnsGoogleAnswer(Some(<<".">>))>>)),
     DohPayload(Some(<<DnsGoogleAnswer(Some(<<"B", ".">>)),
                      DnsGoogleAnswer(Some(<<" ", "b">>))>>)),
     DohPayload(Some(<<DnsGoogleAnswer(Some(<<"1">>)), DnsGoogleAnswer(Some(<<"1">>)),
                      DnsGoogleAnswer(Some(<<"2">>))>>))}

(* Lines 1132-1195: without endpoints the empty answer is returned; with   *)
(* them a task is spawned for each of the first three.                     *)
DohStart ==
    /\ doh.pc = "start"
    /\ doh' = IF doh.doh_endpoints = <<>>
              THEN [doh EXCEPT !.pc = "done", !.result = Some(<<>>)]
              ELSE LET spawned == Take(doh.doh_endpoints, DohRace)
                   IN  [doh EXCEPT !.pc = "join",
                                   !.spawned = spawned,
                                   !.running = 1..Len(spawned)]
    /\ UNCHANGED <<zone, resolverOk, family, ps, simVars, graphVars, hc, batchVars>>

(* A task of the JoinSet runs query_one_doh to its end, or panics. *)
DohTaskDone(i) ==
    /\ doh.pc = "join"
    /\ i \in doh.running
    /\ \E joined \in {JoinOk(QueryOneDoh(resp, doh.record_type)) : resp \in DohResponses}
                     \cup {JoinErr} :
          doh' = [doh EXCEPT !.running = doh.running \ {i},
                             !.ready = Append(doh.ready, Joined(i, joined)),
                             !.completed = Append(doh.completed, Joined(i, joined))]
    /\ UNCHANGED <<zone, resolverOk, family, ps, simVars, graphVars, hc, batchVars>>

(* Lines 1196-1200: join_next hands out a completed task.  With an answer  *)
(* the function returns it, and the JoinSet is dropped with the tasks that *)
(* are left in it.                                                         *)
DohJoinNext ==
    /\ doh.pc = "join"
    /\ doh.ready # <<>>
    /\ LET joined == Head(doh.ready).joined
       IN  doh' = IF joined.tag = "ok" /\ joined.val # None
                  THEN [doh EXCEPT !.pc = "done",
                                   !.result = Some(joined.val[1]),
                                   !.aborted = doh.running,
                                   !.running = {},
                                   !.ready = <<>>]
                  ELSE [doh EXCEPT !.ready = Tail(doh.ready)]
    /\ UNCHANGED <<zone, resolverOk, family, ps, simVars, graphVars, hc, batchVars>>

(* Lines 1196 and 1201: join_next finds the JoinSet empty. *)
DohJoinEnd ==
    /\ doh.pc = "join"
    /\ doh.ready = <<>>
    /\ doh.running = {}
    /\ doh' = [doh EXCEPT !.pc = "done", !.result = Some(<<>>)]
    /\ UNCHANGED <<zone, resolverOk, family, ps, simVars, graphVars, hc, batchVars>>

\* no call of query_doh_records is under way
DohIdle == doh = NoDohQuery

(***************************************************************************)
(* resolve_topology_batch and the host cache.  calls[c] is the activation  *)
(* of call c: its arguments, its locals and its position; cache is the map *)
(* behind topology_host_cache(), readers and writer are the guards of its  *)
(* RwLock that are alive, now is the wall clock.  An action is the code    *)
(* of one call between two of its suspension points (a lock, a join) or    *)
(* clock readings; the write pass is cut into its three loops so that the  *)
(* cache between them is a state of the model.                             *)
(*                                                                         *)
(* A resolution task is resolve_chain_for_host, modelled above; here it    *)
(* comes back with one of the results that function can return for the     *)
(* host.  lookup_timeout_ms and doh_endpoints only go into those lookups   *)
(* and are left out.                                                       *)
(***************************************************************************)

\* the texts of the option handling
StrCustom == <<"c","u","s","t","o","m">>

StrLegacy == <<"_","_","l","e","g","a","c","y","_","_">>

StrGoogle == <<"g","o","o","g","l","e">>

StrQuad9 == <<"q","u","a","d","9">>

StrCloudflare == <<"c","l","o","u","d","f","l","a","r","e">>

StrDns == <<"d","n","s">>

StrTrue == <<"t","r","u","e">>

StrFalse == <<"f","a","l","s","e">>

Dns1111 == <<"1",".","1",".","1",".","1">>

Dns8888 == <<"8",".","8",".","8",".","8">>

Dns9999 == <<"9",".","9",".","9",".","9">>

\* Option::unwrap_or
UnwrapOr(opt, default) == IF opt = None THEN default ELSE opt[1]

\* resolve_dns_server
ResolveDnsServer(dns_server, custom_dns_server, legacy_provider) ==
    LET selected == Trim(UnwrapOr(dns_server, Dns1111))
        custom == Trim(UnwrapOr(custom_dns_server, <<>>))
        legacy == ToLower(Trim(UnwrapOr(legacy_provider, StrCloudflare)))
    IN  IF ToLower(selected) = StrCustom /\ custom # <<>> THEN custom
        ELSE IF selected # <<>> /\ selected # StrLegacy THEN selected
        ELSE IF legacy = StrGoogle THEN Dns8888
        ELSE IF legacy = StrQuad9 THEN Dns9999
        ELSE Dns1111

DefaultMaxHops == 15

\* usize::from(max_hops.unwrap_or(15)).clamp(1, 15)
ClampMaxHops(max_hops) ==
    LET v == UnwrapOr(max_hops, DefaultMaxHops)
    IN  IF v < 1 THEN 1 ELSE IF v > DefaultMaxHops THEN DefaultMaxHops ELSE v

DecimalDigits == <<"0","1","2","3","4","5","6","7","8","9">>

\* Display of an unsigned integer
RECURSIVE FormatNat(_)
FormatNat(n) ==
    IF n < 10 THEN <<DecimalDigits[n + 1]>>
    ELSE FormatNat(n \div 10) \o <<DecimalDigits[(n % 10) + 1]>>

\* Display of a bool
FormatBool(b) == IF b THEN StrTrue ELSE StrFalse

\* the options of a call as lines 1472-1496 derive them from its arguments
BatchConfig(req) ==
    [max_hops |-> ClampMaxHops(req.max_hops),
     disable_ptr_lookups |-> UnwrapOr(req.disable_ptr_lookups, FALSE),
     resolver_mode |-> ToLower(Trim(UnwrapOr(req.resolver_mode, StrDns))),
     selected_dns_server |-> ResolveDnsServer(req.dns_server, req.custom_dns_server,
                                              req.doh_provider),
     doh_provider_key |-> ToLower(Trim(UnwrapOr(req.doh_provider, StrCloudflare))),
     doh_custom_key |-> Trim(UnwrapOr(req.doh_custom_url, <<>>))]

\* format!("{}|{}|{}|{}|{}|{}|{}", ...): the cache key of a host under the options
CacheKey(cfg, host) ==
    cfg.resolver_mode \o <<"|">> \o cfg.selected_dns_server \o <<"|">> \o
    cfg.doh_provider_key \o <<"|">> \o cfg.doh_custom_key \o <<"|">> \o
    FormatNat(cfg.max_hops) \o <<"|">> \o FormatBool(cfg.disable_ptr_lookups) \o
    <<"|">> \o host

TopologyHostCacheEntry(ts_ms, value) == [ts_ms |-> ts_ms, value |-> value]

\* HashMap::insert
MapInsert(map, k, v) == [x \in DOMAIN map \cup {k} |-> IF x = k THEN v ELSE map[x]]

\* HashMap::remove and HashMap::retain on a set of keys to keep
MapRestrict(map, keys) == [x \in keys |-> map[x]]

EmptyMap == <<>>

\* no call holds the write lock
NoCall == 0

\* The sizes of the code, scaled down: the TTL of a cache entry in ticks of
\* the model's clock (5 minutes in the code), the capacity of the cache
\* (6000), and the chunk sizes of the resolutions (16) and the probes (8).
TOPOLOGY_HOST_CACHE_TTL_MS == 1

TOPOLOGY_HOST_CACHE_MAX_ENTRIES == 2

resolve_parallelism == 2

probe_parallelism == 2

\* the reading of the clock at which the model stops starting calls
MaxTime == 2

\* the calls of resolve_topology_batch, numbered in the order they are made
Calls == {1, 2}

BatchErr(e) == [tag |-> "Err", err |-> e]

TopologyBatchResult(resolutions, probes) ==
    [tag |-> "Ok", resolutions |-> resolutions, probes |-> probes]

ServiceProbeResult(host, https_up, http_up) ==
    [host |-> host, https_up |-> https_up, http_up |-> http_up]

\* the arguments of a call; the options not listed are None in every call
BatchRequest(hostnames, service_hosts, max_hops, resolver_mode, disable_ptr_lookups) ==
    [hostnames |-> hostnames, max_hops |-> max_hops, service_hosts |-> service_hosts,
     doh_provider |-> None, doh_custom_url |-> None, resolver_mode |-> resolver_mode,
     dns_server |-> None, custom_dns_server |-> None,
     disable_ptr_lookups |-> disable_ptr_lookups]

NoRequest == BatchRequest(<<>>, None, None, None, None)

\* a call not yet made.  spawned, hits, probed, evicted, writes, after and
\* beside are history: the hosts whose task was spawned, resolved_by_host
\* as the read pass left it, the probes made, the entries the call evicted,
\* the write passes it began, the calls that had returned when it started,
\* and the calls that held a read guard when its own was granted.
NoBatchCall ==
    [pc |-> "idle", req |-> NoRequest, cfg |-> BatchConfig(NoRequest),
     unique_hosts |-> <<>>, now_ms |-> 0, unresolved_hosts |-> <<>>,
     resolved_by_host |-> EmptyMap, cache_updates |-> <<>>, chunk |-> 1,
     inflight |-> {}, write_ts |-> 0, resolutions |-> <<>>,
     unique_probe_hosts |-> <<>>, probe_chunk |-> 1, probing |-> {},
     probes |-> <<>>, result |-> None,
     spawned |-> <<>>, hits |-> EmptyMap, probed |-> <<>>, evicted |-> {},
     writes |-> 0, after |-> {}, beside |-> {}]

\* what resolve_chain_for_host can return for a host: the result for the
\* empty name, a resolved chain, or the unresolved one
TaskResults(host) ==
    LET name == NormalizeDomain(host)
    IN  IF name = <<>>
        THEN {HostnameChainResult(name, <<>>, <<>>, <<>>, <<>>, <<>>,
                                  Some(EmptyHostnameError))}
        ELSE {HostnameChainResult(name, <<name>>, name, << <<"1">> >>, <<>>, <<>>, None),
              HostnameChainResult(name, <<name>>, name, <<>>, <<>>, <<>>,
                                  Some(NoRecordsError))}

\* a variant of the freshness test that never finds an entry fresh
IsFreshNever(now_ms, entry) == FALSE

\* a variant of the freshness test that finds every entry fresh
IsFreshAlways(now_ms, entry) == TRUE

\* the test of the read pass: the entry is no older than the TTL
IsFresh(now_ms, entry) == now_ms - entry.ts_ms <= TOPOLOGY_HOST_CACHE_TTL_MS

\* the loop of the read pass over the hosts from position i on: a fresh
\* entry goes to resolved_by_host, every other host to unresolved_hosts
RECURSIVE ReadLoop(_, _, _)
ReadLoop(call, map, i) ==
    IF i > Len(call.unique_hosts) THEN call
    ELSE LET host == call.unique_hosts[i]
             cache_key == CacheKey(call.cfg, host)
         IN  IF cache_key \in DOMAIN map /\ IsFresh(call.now_ms, map[cache_key])
             THEN ReadLoop([call EXCEPT !.resolved_by_host =
                                MapInsert(call.resolved_by_host, host,
                                          map[cache_key].value)],
                           map, i + 1)
             ELSE ReadLoop([call EXCEPT !.unresolved_hosts =
                                Append(call.unresolved_hosts, host)],
                           map, i + 1)

\* a variant that takes every remaining item as one chunk
ChunkEndAll(start, len, size) == len

\* slice::chunks: the last index of the chunk of the given size from start
ChunkEnd(start, len, size) == IF start + size - 1 < len THEN start + size - 1 ELSE len

\* a variant that lets the write pass begin after the first chunk
FirstChunkDone(call) == call.chunk > 1

\* the loop over unresolved_hosts.chunks(16) has run out
ChunksDone(call) == call.chunk > Len(call.unresolved_hosts)

\* the loop over unique_probe_hosts.chunks(8) has run out
ProbesDone(call) == call.probe_chunk > Len(call.unique_probe_hosts)

\* the loop that inserts cache_updates from position i on
RECURSIVE InsertUpdates(_, _, _)
InsertUpdates(map, call, i) ==
    IF i > Len(call.cache_updates) THEN map
    ELSE InsertUpdates(
             MapInsert(map, CacheKey(call.cfg, call.cache_updates[i][1]),
                       TopologyHostCacheEntry(call.write_ts, call.cache_updates[i][2])),
             call, i + 1)

\* a variant of the sweep that keeps every entry
SweepKeepsAll(write_ts, entry) == TRUE

\* the predicate of cache.retain
SweepKeeps(write_ts, entry) == write_ts - entry.ts_ms <= TOPOLOGY_HOST_CACHE_TTL_MS

\* the sets of keys the capacity eviction can remove: remove_count keys from
\* the front of the entries sorted by timestamp.  The sort is stable over
\* the iteration order of the HashMap, which is arbitrary, so among equal
\* timestamps any can come first.
Victims(map) ==
    LET remove_count == Cardinality(DOMAIN map) - TOPOLOGY_HOST_CACHE_MAX_ENTRIES
    IN  IF remove_count <= 0 THEN {{}}
        ELSE {v \in SUBSET DOMAIN map :
                 /\ Cardinality(v) = remove_count
                 /\ \A k \in v, x \in DOMAIN map \ v : map[k].ts_ms <= map[x].ts_ms}

\* a variant that pushes the values in the reverse order of the hosts
RECURSIVE ResolutionsReversed(_, _)
ResolutionsReversed(unique_hosts, resolved_by_host) ==
    IF unique_hosts = <<>> THEN <<>>
    ELSE ResolutionsReversed(Tail(unique_hosts), resolved_by_host) \o
         (IF Head(unique_hosts) \in DOMAIN resolved_by_host
          THEN <<resolved_by_host[Head(unique_hosts)]>> ELSE <<>>)

\* the reassembly loop: for each host in order the value removed from
\* resolved_by_host, if there is one (unique_hosts holds no host twice)
RECURSIVE Resolutions(_, _)
Resolutions(unique_hosts, resolved_by_host) ==
    IF unique_hosts = <<>> THEN <<>>
    ELSE LET host == Head(unique_hosts)
         IN  IF host \in DOMAIN resolved_by_host
             THEN <<resolved_by_host[host]>> \o
                  Resolutions(Tail(unique_hosts),
                              MapRestrict(resolved_by_host,
                                          DOMAIN resolved_by_host \ {host}))
             ELSE Resolutions(Tail(unique_hosts), resolved_by_host)

\* a variant of the lock that lets a reader in beside a writer
CanReadAlways(w) == TRUE

\* RwLock::read is granted: no write guard is alive
CanRead(w) == w = NoCall

\* RwLock::write is granted: no guard is alive
CanWrite(r, w) == r = {} /\ w = NoCall

\* call c with its activation replaced
SetCall(c, call) == [calls EXCEPT ![c] = call]

\* what Utc::now() can return: the clock does not run backwards
ClockReadings == now..MaxTime

HostA == <<"a">>

HostB == <<"b">>

HostC == <<"c">>

\* the arguments of the first of the calls that run beside one another
FirstRequests ==
    {BatchRequest(<<>>, Some(<< <<"S", ".">> >>), None, None, None),
     BatchRequest(<<HostA>>, None, None, None, None),
     BatchRequest(<<HostA, HostB, HostC>>, None, None, None, None)}

\* the arguments of the calls made after it
LaterRequests ==
    {BatchRequest(<<>>, Some(<< <<"S", ".">> >>), None, None, None),
     BatchRequest(<<HostA>>, None, None, None, None),
     BatchRequest(<<HostA>>, None, None, None, Some(TRUE))}

\* the arguments of a call that runs alone
SingleRequests ==
    {BatchRequest(<<>>, None, None, None, None),
     BatchRequest(<<HostB, HostA, HostB>>, None, None, None, None),
     BatchRequest(<<HostA, HostB, HostC>>, None, None, None, None),
     BatchRequest(<<HostA>>, Some(<< <<"s">>, <<"S", ".">>, <<".">>, <<"t">>, <<"u">> >>),
                  None, None, None),
     BatchRequest(<<<<"A", ".">>, <<" ">>, HostA>>, Some(<<>>), Some(0),
                  Some(<<" ", "D", "o", "H">>), Some(TRUE)),
     BatchRequest(<<<<"a", " ", ".">>, HostA>>, None, None, None, None)}

\* a hostname and a DoH URL that hold the separator of the cache key
PipeHost == <<"x", "|", "5", "|", "t", "r", "u", "e", "|", "a">>

PipeUrl == <<"|", "1", "5", "|", "f", "a", "l", "s", "e", "|", "x">>

\* the arguments of two calls whose options differ: the first with the
\* defaults, or with five hops and no PTR lookups; the second with five
\* hops and no PTR lookups, with or without a DoH URL
KeyRequests(c) ==
    IF c = 1
    THEN {BatchRequest(<<PipeHost>>, Some(<< <<"s">> >>), None, None, None),
          BatchRequest(<<HostA>>, None, Some(5), None, Some(TRUE))}
    ELSE {[BatchRequest(<<HostA>>, None, Some(5), None, Some(TRUE))
              EXCEPT !.doh_custom_url = Some(PipeUrl)],
          BatchRequest(<<HostA>>, None, Some(5), None, Some(TRUE))}

\* the calls that are made: one alone, or all of Calls
Callers == IF family = "single" THEN {1} ELSE Calls

\* the arguments call c can be made with
Requests(c) ==
    IF family = "single" THEN SingleRequests
    ELSE IF family = "keys" THEN KeyRequests(c)
    ELSE IF c = 1 THEN FirstRequests ELSE LaterRequests

(* Lines 1472-1518: the options, the resolver and the HTTP client (whose   *)
(* construction can fail, which returns the Err), the distinct normalized  *)
(* hostnames, and the reading of the clock.                                *)
BatchStart(c) ==
    /\ calls[c].pc = "idle"
    /\ c \in Callers
    /\ \A d \in Calls : d < c => calls[d].pc # "idle"
    /\ \E req \in Requests(c), built \in BOOLEAN, t \in ClockReadings :
          IF built
          THEN /\ now' = t
               /\ calls' = SetCall(c, [calls[c] EXCEPT
                              !.pc = "read_wait",
                              !.req = req,
                              !.cfg = BatchConfig(req),
                              !.unique_hosts = UniqueNormalized(req.hostnames),
                              !.now_ms = t,
                              !.after = {d \in Calls : calls[d].pc = "done"}])
          ELSE /\ now' = now
               /\ calls' = SetCall(c, [calls[c] EXCEPT
                              !.pc = "done",
                              !.req = req,
                              !.result = Some(BatchErr("builder error"))])
    /\ UNCHANGED <<zone, resolverOk, family, ps, simVars, graphVars, hc, doh, cache, readers,
                   writer>>

(* Line 1522: the read guard is granted. *)
AcquireRead(c) ==
    /\ calls[c].pc = "read_wait"
    /\ CanRead(writer)
    /\ readers' = readers \cup {c}
    /\ calls' = SetCall(c, [calls[c] EXCEPT !.pc = "reading", !.beside = readers])
    /\ UNCHANGED <<zone, resolverOk, family, ps, simVars, graphVars, hc, doh, cache, now, writer>>

\* the read pass with the guard kept alive after the block
ReadPassHolding(c) ==
    /\ calls[c].pc = "reading"
    /\ readers' = readers
    /\ LET call == ReadLoop(calls[c], cache, 1)
       IN  calls' = SetCall(c, [call EXCEPT !.pc = "resolve",
                                            !.hits = call.resolved_by_host])
    /\ UNCHANGED <<zone, resolverOk, family, ps, simVars, graphVars, hc, doh, cache, now, writer>>

(* Lines 1523-1536: the read pass, and the guard dropped at its end. *)
ReadPass(c) ==
    /\ calls[c].pc = "reading"
    /\ readers' = readers \ {c}
    /\ LET call == ReadLoop(calls[c], cache, 1)
       IN  calls' = SetCall(c, [call EXCEPT !.pc = "resolve",
                                            !.hits = call.resolved_by_host])
    /\ UNCHANGED <<zone, resolverOk, family, ps, simVars, graphVars, hc, doh, cache, now, writer>>

(* Lines 1540-1559: the tasks of the next chunk are spawned. *)
SpawnChunk(c) ==
    /\ calls[c].pc = "resolve"
    /\ ~ChunksDone(calls[c])
    /\ LET call == calls[c]
           last == ChunkEnd(call.chunk, Len(call.unresolved_hosts), resolve_parallelism)
       IN  calls' = SetCall(c, [call EXCEPT
                        !.pc = "join",
                        !.inflight = call.chunk..last,
                        !.spawned = call.spawned \o
                                    SubSeq(call.unresolved_hosts, call.chunk, last)])
    /\ UNCHANGED <<zone, resolverOk, family, ps, simVars, graphVars, hc, doh, cache, now, readers,
                   writer>>

(* Lines 1560-1568: the task of position i of unresolved_hosts completes   *)
(* and join_next hands over its result; after the last of the chunk the    *)
(* loop over the chunks goes on.                                           *)
TaskDone(c, i) ==
    /\ calls[c].pc = "join"
    /\ i \in calls[c].inflight
    /\ \E result \in TaskResults(calls[c].unresolved_hosts[i]) :
          LET call == calls[c]
              host == NormalizeDomain(result.name)
              joined == IF host = <<>> THEN call
                        ELSE [call EXCEPT
                                 !.resolved_by_host =
                                     MapInsert(call.resolved_by_host, host, result),
                                 !.cache_updates =
                                     Append(call.cache_updates, <<host, result>>)]
              left == call.inflight \ {i}
          IN  calls' = SetCall(c,
                  IF left = {}
                  THEN [joined EXCEPT !.inflight = left,
                                      !.chunk = call.chunk + resolve_parallelism,
                                      !.pc = "resolve"]
                  ELSE [joined EXCEPT !.inflight = left])
    /\ UNCHANGED <<zone, resolverOk, family, ps, simVars, graphVars, hc, doh, cache, now, readers,
                   writer>>

(* Lines 1570-1571: there are updates, and the clock is read for write_ts. *)
TakeWriteTs(c) ==
    /\ calls[c].pc = "resolve"
    /\ ChunksDone(calls[c])
    /\ calls[c].cache_updates # <<>>
    /\ \E t \in ClockReadings :
          /\ now' = t
          /\ calls' = SetCall(c, [calls[c] EXCEPT !.pc = "write_wait", !.write_ts = t])
    /\ UNCHANGED <<zone, resolverOk, family, ps, simVars, graphVars, hc, doh, cache, readers,
                   writer>>

(* Lines 1572-1585: the write guard is granted and the updates are         *)
(* inserted.                                                               *)
WriteInsert(c) ==
    /\ calls[c].pc = "write_wait"
    /\ CanWrite(readers, writer)
    /\ writer' = c
    /\ cache' = InsertUpdates(cache, calls[c], 1)
    /\ calls' = SetCall(c, [calls[c] EXCEPT !.pc = "sweep",
                                            !.writes = calls[c].writes + 1])
    /\ UNCHANGED <<zone, resolverOk, family, ps, simVars, graphVars, hc, doh, now, readers>>

(* Line 1586: the sweep of the expired entries. *)
WriteSweep(c) ==
    /\ calls[c].pc = "sweep"
    /\ cache' = MapRestrict(cache, {k \in DOMAIN cache :
                                       SweepKeeps(calls[c].write_ts, cache[k])})
    /\ calls' = SetCall(c, [calls[c] EXCEPT !.pc = "evict"])
    /\ UNCHANGED <<zone, resolverOk, family, ps, simVars, graphVars, hc, doh, now, readers,
                   writer>>

(* Lines 1587-1598: the capacity eviction, and the guard dropped. *)
WriteEvict(c) ==
    /\ calls[c].pc = "evict"
    /\ \E v \in Victims(cache) :
          /\ cache' = MapRestrict(cache, DOMAIN cache \ v)
          /\ calls' = SetCall(c, [calls[c] EXCEPT
                         !.pc = "reassemble",
                         !.evicted = {<<k, cache[k].ts_ms>> : k \in v}])
    /\ writer' = NoCall
    /\ UNCHANGED <<zone, resolverOk, family, ps, simVars, graphVars, hc, doh, now, readers>>

(* Lines 1599-1615: the resolutions in the order of unique_hosts, and the  *)
(* distinct normalized service hosts.  Without updates the write pass is   *)
(* passed over.                                                            *)
Reassemble(c) ==
    /\ \/ calls[c].pc = "reassemble"
       \/ calls[c].pc = "resolve" /\ ChunksDone(calls[c]) /\ calls[c].cache_updates = <<>>
    /\ calls' = SetCall(c, [calls[c] EXCEPT
                   !.pc = "probe",
                   !.resolutions = Resolutions(calls[c].unique_hosts,
                                               calls[c].resolved_by_host),
                   !.resolved_by_host =
                       MapRestrict(calls[c].resolved_by_host,
                                   DOMAIN calls[c].resolved_by_host \
                                   {calls[c].unique_hosts[i] :
                                       i \in 1..Len(calls[c].unique_hosts)}),
                   !.unique_probe_hosts =
                       UniqueNormalized(UnwrapOr(calls[c].req.service_hosts, <<>>))])
    /\ UNCHANGED <<zone, resolverOk, family, ps, simVars, graphVars, hc, doh, cache, now, readers,
                   writer>>

(* Lines 1617-1635: the probe tasks of the next chunk are spawned. *)
ProbeSpawn(c) ==
    /\ calls[c].pc = "probe"
    /\ ~ProbesDone(calls[c])
    /\ calls' = SetCall(c, [calls[c] EXCEPT
                   !.pc = "probe_join",
                   !.probing = calls[c].probe_chunk ..
                               ChunkEnd(calls[c].probe_chunk,
                                        Len(calls[c].unique_probe_hosts),
                                        probe_parallelism)])
    /\ UNCHANGED <<zone, resolverOk, family, ps, simVars, graphVars, hc, doh, cache, now, readers,
                   writer>>

(* Lines 1623-1640: the probe task of position i completes, with what its  *)
(* two probe_url calls came to, and join_next hands over its result.       *)
ProbeDone(c, i) ==
    /\ calls[c].pc = "probe_join"
    /\ i \in calls[c].probing
    /\ \E https \in BOOLEAN, http \in BOOLEAN :
          LET call == calls[c]
              host == call.unique_probe_hosts[i]
              left == call.probing \ {i}
              joined == [call EXCEPT
                            !.probes = Append(call.probes,
                                              ServiceProbeResult(host, https, http)),
                            !.probed = call.probed \o
                                       <<<<"https", host, https>>, <<"http", host, http>>>>,
                            !.probing = left]
          IN  calls' = SetCall(c,
                  IF left = {}
                  THEN [joined EXCEPT !.probe_chunk = call.probe_chunk + probe_parallelism,
                                      !.pc = "probe"]
                  ELSE joined)
    /\ UNCHANGED <<zone, resolverOk, family, ps, simVars, graphVars, hc, doh, cache, now, readers,
                   writer>>

(* Line 1643: the call returns. *)
BatchReturn(c) ==
    /\ calls[c].pc = "probe"
    /\ ProbesDone(calls[c])
    /\ calls' = SetCall(c, [calls[c] EXCEPT
                   !.pc = "done",
                   !.result = Some(TopologyBatchResult(calls[c].resolutions,
                                                      calls[c].probes))])
    /\ UNCHANGED <<zone, resolverOk, family, ps, simVars, graphVars, hc, doh, cache, now, readers,
                   writer>>

\* no call of resolve_topology_batch was made and the cache is empty
BatchIdle ==
    /\ calls = <<>>
    /\ cache = EmptyMap
    /\ now = 0
    /\ readers = {}
    /\ writer = NoCall

TopoIdle == ChainIdle /\ DohIdle /\ BatchIdle

(***************************************************************************)
(* The inputs of the evaluator's specifications.                           *)
(***************************************************************************)

\* the candidate IPs: one outside and one inside the network 2/1, and a text
\* that is no IP address
IpInputs == {<<"1">>, <<"2">>, <<"z">>}

InitSim ==
    /\ family = "sim"
    /\ zone = [d \in Names |-> Unknown]
    /\ resolverOk \in BOOLEAN
    /\ \E ip \in IpInputs : stack = <<NewFrame(NameX, ip)>>
    /\ simResult = NoResult
    /\ mechCount = 0
    /\ GraphIdle
    /\ ParseIdle
    /\ TopoIdle

NextSim ==
    \/ SimStart
    \/ EvalStep
    \/ EvalInclude
    \/ ReturnInclude
    \/ AfterLoop
    \/ ReturnRedirect
    \/ ReturnTop

SpecSim == InitSim /\ [][NextSim]_vars

(* The evaluator on the zones of nested includes, which have no redirect. *)
NextDeep ==
    \/ SimStart
    \/ EvalStep
    \/ EvalInclude
    \/ ReturnInclude
    \/ AfterLoop
    \/ ReturnTop

InitDeep ==
    /\ family = "deep"
    /\ zone = [d \in Names |-> Unknown]
    /\ resolverOk = TRUE
    /\ stack = <<NewFrame(NameX, <<"1">>)>>
    /\ simResult = NoResult
    /\ mechCount = 0
    /\ GraphIdle
    /\ ParseIdle
    /\ TopoIdle

SpecDeep == InitDeep /\ [][NextDeep]_vars

(* The evaluator on the zones without include and redirect: it never calls *)
(* itself on them, so its actions of call and return are left out.         *)

\* every IPv4 address, an IPv6 address, and a text that is no IP address
FlatIpInputs == {<<"0">>, <<"1">>, <<"2">>, <<"3">>, <<":","2">>, <<"z">>}

InitFlat ==
    /\ family = "flat"
    /\ zone = [d \in Names |-> Unknown]
    /\ resolverOk \in BOOLEAN
    /\ \E ip \in FlatIpInputs : stack = <<NewFrame(NameX, ip)>>
    /\ simResult = NoResult
    /\ mechCount = 0
    /\ GraphIdle
    /\ ParseIdle
    /\ TopoIdle

NextFlat ==
    \/ SimStart
    \/ EvalStep
    \/ AfterLoop
    \/ ReturnTop

SpecFlat == InitFlat /\ [][NextFlat]_vars

(* The evaluator on the zones with a mechanism of every kind, which have   *)
(* no redirect.                                                            *)
InitKinds ==
    /\ family = "kinds"
    /\ zone = [d \in Names |-> Unknown]
    /\ resolverOk = TRUE
    /\ \E ip \in {<<"1">>, <<":", "2">>} : stack = <<NewFrame(NameX, ip)>>
    /\ simResult = NoResult
    /\ mechCount = 0
    /\ GraphIdle
    /\ ParseIdle
    /\ TopoIdle

SpecKinds == InitKinds /\ [][NextDeep]_vars

(* The evaluator on the zones with cycles. *)
InitCycle ==
    /\ family = "cycle"
    /\ zone = [d \in Names |-> Unknown]
    /\ resolverOk = TRUE
    /\ stack = <<NewFrame(NameX, <<"1">>)>>
    /\ simResult = NoResult
    /\ mechCount = 0
    /\ GraphIdle
    /\ ParseIdle
    /\ TopoIdle

SpecCycle == InitCycle /\ [][NextSim]_vars

(* build_spf_graph on the zones for the graph. *)
InitGraph ==
    /\ family = "graph"
    /\ zone = [d \in Names |-> Unknown]
    /\ resolverOk \in BOOLEAN
    /\ SimIdle
    /\ GraphIdle
    /\ ParseIdle
    /\ TopoIdle

NextGraph ==
    \/ BuildStart
    \/ WalkEnter
    \/ WalkMechanism
    \/ WalkModifier
    \/ WalkReturn
    \/ BuildReturn

SpecGraph == InitGraph /\ [][NextGraph]_vars

\* every step of build_spf_graph that can be taken is taken in the end
SpecGraphFair == SpecGraph /\ WF_vars(NextGraph)

(* build_spf_graph on the zones that are one line of names. *)
InitLine ==
    /\ family = "line"
    /\ zone = [d \in Names \cup LineNames |-> Unknown]
    /\ resolverOk = TRUE
    /\ SimIdle
    /\ GraphIdle
    /\ ParseIdle
    /\ TopoIdle

SpecLine == InitLine /\ [][NextGraph]_vars

(***************************************************************************)
(* resolve_chain_for_host on its own: one call with any of the hosts and   *)
(* options below, and every outcome of every lookup it makes.              *)
(***************************************************************************)
MaxHops == 2

ChainHosts == {<<"a">>, <<"A", ".">>, <<" ", ".">>}

InitChain ==
    /\ zone = [d \in Names |-> Unknown]
    /\ resolverOk = TRUE
    /\ family = "sim"
    /\ SimIdle
    /\ GraphIdle
    /\ ParseIdle
    /\ DohIdle
    /\ BatchIdle
    /\ \E host \in ChainHosts, max_hops \in 1..MaxHops,
          doh_endpoints \in {<<>>, <<"e">>}, disable_ptr_lookups \in BOOLEAN :
          hc = NewChainCall(host, max_hops, doh_endpoints, disable_ptr_lookups)

NextChain ==
    \/ ChainStart
    \/ CnameLookup
    \/ CnameDoh
    \/ AddrLookup
    \/ AddrDoh
    \/ PtrLookup

SpecChain == InitChain /\ [][NextChain]_vars

\* every lookup is under a timeout, so a call that can take a step takes it
SpecChainFair == SpecChain /\ WF_vars(NextChain)

(***************************************************************************)
(* parse_spf on its own: the argument is a tag, or none, followed by at    *)
(* most MaxParts tokens, laid out with more or less whitespace.            *)
(***************************************************************************)
MaxParts == 3

\* what stands where the version tag should
ParseTags == {VSpf1, <<"V","=","S","p","F","1">>, <<"v","=","s","p","f","2">>,
              <<"s","p","f","1">>, <<>>}

ParseTokens ==
    {<<"-","a","l","l">>, <<"A",":","b",":","C">>, <<"+">>, <<"?","a",":">>,
     <<"~","I","P","4",":","1","/","1">>, <<"R","e","d","i","r","e","c","t","=","Y","=","z">>,
     <<"=","x">>, <<"e","x","p","=">>}

\* the whitespace before the tag, between the tag and the first token,
\* between two tokens, and after the last
ParseLayouts ==
    [tight |-> [lead |-> <<>>, gap |-> <<>>, sep |-> <<" ">>, trail |-> <<>>],
     plain |-> [lead |-> <<>>, gap |-> <<" ">>, sep |-> <<" ">>, trail |-> <<>>],
     loose |-> [lead |-> <<"\t", " ">>, gap |-> <<" ", " ">>, sep |-> <<" ", "\t">>,
                trail |-> <<" ">>]]

RECURSIVE JoinParts(_, _)
JoinParts(parts, sep) ==
    IF parts = <<>> THEN <<>>
    ELSE IF Len(parts) = 1 THEN parts[1]
    ELSE parts[1] \o sep \o JoinParts(Tail(parts), sep)

LaidOut(tag, parts, l) == l.lead \o tag \o l.gap \o JoinParts(parts, l.sep) \o l.trail

InitParse ==
    /\ zone = [d \in Names |-> Unknown]
    /\ resolverOk = TRUE
    /\ family = "sim"
    /\ SimIdle
    /\ GraphIdle
    /\ TopoIdle
    /\ \E tag \in ParseTags, parts \in SeqsUpTo(ParseTokens, MaxParts),
          layout \in DOMAIN ParseLayouts :
          ps = [NoParse EXCEPT !.pc = "start",
                               !.content = LaidOut(tag, parts, ParseLayouts[layout]),
                               !.tag = tag, !.parts = parts, !.layout = layout]

NextParse == ParseCall

SpecParse == InitParse /\ [][NextParse]_vars

(***************************************************************************)
(* query_doh_records on its own: one query over a list of up to            *)
(* MaxEndpoints endpoints, its tasks completing in any order.              *)
(***************************************************************************)
MaxEndpoints == 4

InitDoh ==
    /\ zone = [d \in Names |-> Unknown]
    /\ resolverOk = TRUE
    /\ family = "sim"
    /\ SimIdle
    /\ GraphIdle
    /\ ParseIdle
    /\ ChainIdle
    /\ BatchIdle
    /\ \E n \in 0..MaxEndpoints, record_type \in {"CNAME", "A", "AAAA"} :
          doh = NewDohQuery([i \in 1..n |-> FormatNat(i)], record_type)

NextDoh ==
    \/ DohStart
    \/ \E i \in 1..MaxEndpoints : DohTaskDone(i)
    \/ DohJoinNext
    \/ DohJoinEnd

SpecDoh == InitDoh /\ [][NextDoh]_vars

(***************************************************************************)
(* resolve_topology_batch: the calls of Calls, made one after the other or *)
(* overlapping, on a cache that starts empty.                              *)
(***************************************************************************)
InitBatch ==
    /\ zone = [d \in Names |-> Unknown]
    /\ resolverOk = TRUE
    /\ family = "batch"
    /\ SimIdle
    /\ GraphIdle
    /\ ParseIdle
    /\ ChainIdle
    /\ DohIdle
    /\ calls = [c \in Calls |-> NoBatchCall]
    /\ cache = EmptyMap
    /\ now = 0
    /\ readers = {}
    /\ writer = NoCall

\* the cache as a call for the host a with the default options left it at
\* time 0, or empty
SeedCaches ==
    {EmptyMap} \cup
    {MapInsert(EmptyMap, CacheKey(BatchConfig(NoRequest), HostA),
               TopologyHostCacheEntry(0, value)) : value \in TaskResults(HostA)}

\* one call, alone
InitSingle ==
    /\ zone = [d \in Names |-> Unknown]
    /\ resolverOk = TRUE
    /\ family = "single"
    /\ SimIdle
    /\ GraphIdle
    /\ ParseIdle
    /\ ChainIdle
    /\ DohIdle
    /\ calls = [c \in Calls |-> NoBatchCall]
    /\ cache \in SeedCaches
    /\ now = 0
    /\ readers = {}
    /\ writer = NoCall

NextBatch ==
    \E c \in Calls :
        \/ BatchStart(c)
        \/ AcquireRead(c)
        \/ ReadPass(c)
        \/ SpawnChunk(c)
        \/ \E i \in calls[c].inflight : TaskDone(c, i)
        \/ TakeWriteTs(c)
        \/ WriteInsert(c)
        \/ WriteSweep(c)
        \/ WriteEvict(c)
        \/ Reassemble(c)
        \/ ProbeSpawn(c)
        \/ \E i \in calls[c].probing : ProbeDone(c, i)
        \/ BatchReturn(c)

SpecBatch == InitBatch /\ [][NextBatch]_vars

SpecSingle == InitSingle /\ [][NextBatch]_vars

\* two calls whose options differ, on a cache that starts empty
InitKeys ==
    /\ zone = [d \in Names |-> Unknown]
    /\ resolverOk = TRUE
    /\ family = "keys"
    /\ SimIdle
    /\ GraphIdle
    /\ ParseIdle
    /\ ChainIdle
    /\ DohIdle
    /\ calls = [c \in Calls |-> NoBatchCall]
    /\ cache = EmptyMap
    /\ now = 0
    /\ readers = {}
    /\ writer = NoCall

SpecKeys == InitKeys /\ [][NextBatch]_vars

Spec == SpecSim

(***************************************************************************)
(* The claims about simulate_spf.                                          *)
(***************************************************************************)

\* the frames of the stack
Frames == {stack[i] : i \in 1..Len(stack)}

\* the frame has returned, or is about to
Returned(f) == f.pc \in {"ret", "done"}

\* C1: one lookup counter, capped at MaxLookups, is shared by the call and
\* its nested includes.  Once more than MaxLookups lookup-consuming
\* mechanisms (a, mx, ptr, include, exists) have been entered, at any depth,
\* no further one is entered, and the verdict of the call is permerror.
C1_SharedLookupCap ==
    /\ mechCount <= MaxLookups + 1
    /\ (Done /\ simResult.tag = "Ok" /\ mechCount > MaxLookups)
          => simResult.result = "permerror"

\* The zone of C1's failing input has run to its end: x includes y and z, y
\* is three a mechanisms, z includes y twice, and no a query failed or
\* found the IP.
C1_FailingInputRan ==
    /\ Done
    /\ zone[NameX] = TxtOk(<<SpfText(<<TokIncludeY, TokIncludeZ>>)>>)
    /\ zone[NameY] = TxtOk(<<SpfText(<<TokA, TokA, TokA>>)>>)
    /\ zone[NameZ] = TxtOk(<<SpfText(<<TokIncludeY, TokIncludeY>>)>>)
    /\ simResult = SimOk("neutral", <<"no matching mechanism">>, 18)
    /\ mechCount = 13

\* the outermost call was given an IP address and could build its resolver
CallValid == ParseIpAddr(stack[1].ip) # None /\ resolverOk

DashAllTxt == <<"v","=","s","p","f","1"," ","-","a","l","l">>

\* the TXT answers of a domain whose SPF record is exactly "v=spf1 -all"
DashAllAnswers == {TxtOk(<<DashAllTxt>>), TxtOk(<<JunkTxt, DashAllTxt>>)}

\* C2: on a domain whose SPF record is exactly "v=spf1 -all", simulate_spf
\* returns fail with lookups = 1 for every candidate IP.
C2_DashAllFails ==
    (Done /\ CallValid /\ zone[NameX] \in DashAllAnswers)
        => simResult = SimOk("fail", <<<<"matched mechanism", NameAll>>>>, 1)

C2_Witness ==
    /\ Done /\ CallValid
    /\ zone[NameX] = TxtOk(<<JunkTxt, DashAllTxt>>)
    /\ stack[1].ip = <<":", "2">>
    /\ simResult.result = "fail"

\* the IP lies inside the network: same family, and the same leading len bits
InsideNet(ip, net) ==
    /\ ip.fam = net.fam
    /\ ip.addr \div Pow2(AddrBits - net.len) = net.addr \div Pow2(AddrBits - net.len)

\* C3's reading of a value: the IP lies inside the value read as a CIDR
\* network or, when the value is no CIDR, equals the value read as an IP
MatchesValue(ip, value) ==
    IF ParseIpNet(value) # None THEN InsideNet(ip, ParseIpNet(value)[1])
    ELSE ParseIpAddr(value) # None /\ ip = ParseIpAddr(value)[1]

IsIpMechanism(m) == m.mechanism \in {NameIp4, NameIp6}

\* the record of the frame is "ip4:N -all" for a network N
IsNetThenDashAll(f) ==
    /\ f.modifiers = <<>>
    /\ Len(f.mechanisms) = 2
    /\ f.mechanisms[1].qualifier = None
    /\ f.mechanisms[1].mechanism = NameIp4
    /\ f.mechanisms[1].value # None
    /\ ParseIpNet(f.mechanisms[1].value[1]) # None
    /\ f.mechanisms[2] = [qualifier |-> Some("-"), mechanism |-> NameAll, value |-> None]

\* C3: an ip4/ip6 mechanism matches exactly when the IP lies inside its
\* value read as a CIDR network or, the value being no CIDR, equals it read
\* as an IP; so on the record "ip4:N -all" the IPs inside N get pass and the
\* IPs outside N get fail.
C3_IpMechanismMatchesCidr ==
    \A f \in Frames :
        /\ \A j \in 1..Len(f.hist) :
              IsIpMechanism(f.mechanisms[j]) =>
                  f.hist[j].r = EvalOk(Some(
                      /\ f.mechanisms[j].value # None
                      /\ MatchesValue(ParseIpAddr(f.ip)[1], f.mechanisms[j].value[1])))
        /\ (Done /\ IsNetThenDashAll(f)) =>
              simResult.result =
                  IF InsideNet(ParseIpAddr(f.ip)[1], ParseIpNet(f.mechanisms[1].value[1])[1])
                  THEN "pass" ELSE "fail"

\* "ip4:1/1 -all": the network 1/1 is written with a host bit set, and the
\* IP 0 lies inside it
C3_Witness ==
    /\ Done
    /\ IsNetThenDashAll(stack[1])
    /\ stack[1].mechanisms[1].value = Some(<<"1", "/", "1">>)
    /\ stack[1].ip = <<"0">>
    /\ simResult.result = "pass"

\* the verdict C4 gives each qualifier
ClaimedVerdict(qualifier) ==
    CASE qualifier = Some("-") -> "fail"
      [] qualifier = Some("~") -> "softfail"
      [] qualifier = Some("?") -> "neutral"
      [] qualifier \in {Some("+"), None} -> "pass"

Matched(h) == h.r = EvalOk(Some(TRUE))

\* C4: the mechanisms are evaluated in record order; the first that matches
\* ends the evaluation, with the verdict its qualifier gives and the counter
\* as that mechanism left it.
C4_FirstMatchWins ==
    /\ \A f \in Frames :
          /\ \A j \in 1..Len(f.hist) :
                /\ f.hist[j].idx = j
                /\ Matched(f.hist[j]) =>
                      /\ j = Len(f.hist)
                      /\ Returned(f)
                      /\ f.res = SimOk(ClaimedVerdict(f.mechanisms[j].qualifier),
                                       <<<<"matched mechanism", f.mechanisms[j].mechanism>>>>,
                                       f.hist[j].lookups)
    /\ Done => simResult = stack[1].res

\* a softfail by an a mechanism that came second, after a mechanism that
\* did not match
C4_Witness ==
    /\ Done
    /\ Len(stack[1].hist) = 2
    /\ ~Matched(stack[1].hist[1])
    /\ Matched(stack[1].hist[2])
    /\ Len(stack[1].mechanisms) = 2
    /\ simResult.result = "softfail"

IsInclude(f, h) == f.mechanisms[h.idx].mechanism = NameInclude

\* C5: an include matches exactly when the nested evaluation of its target
\* returned the verdict pass; after any other verdict (fail, softfail,
\* neutral, permerror) the include is no match and the evaluation goes on
\* with the next mechanism.
C5_IncludeMatchesIffNestedPass ==
    \A f \in Frames : \A j \in 1..Len(f.hist) :
        (IsInclude(f, f.hist[j]) /\ f.hist[j].sub.tag = "Ok") =>
            /\ f.hist[j].r = EvalOk(Some(f.hist[j].sub.result = "pass"))
            /\ f.hist[j].sub.result # "pass" =>
                  /\ f.idx > j
                  /\ (Len(f.hist) = j /\ ~Returned(f)) =>
                        /\ f.idx = j + 1
                        /\ f.pc \in {"loop", "wait_inc", "wait_redir"}

\* the nested evaluation came to permerror, the include did not match and
\* the -all after it gave the verdict
C5_Witness ==
    /\ Done
    /\ Len(stack[1].hist) = 2
    /\ IsInclude(stack[1], stack[1].hist[1])
    /\ stack[1].hist[1].sub.tag = "Ok"
    /\ stack[1].hist[1].sub.result = "permerror"
    /\ simResult.result = "fail"

\* the frame has a record and its loop ran over every mechanism without a
\* match
NoMechanismMatched(f) == f.idx = Len(f.mechanisms) + 1

\* the frame's own count of lookups: the counter as its last mechanism left it
OwnLookups(f) == IF f.hist = <<>> THEN 1 ELSE f.hist[Len(f.hist)].lookups

\* C6: when no mechanism of the record matched, a redirect modifier makes
\* simulate_spf return the verdict and the reasons of the evaluation of the
\* redirect domain, with its own lookups plus that evaluation's; without a
\* redirect it returns neutral, "no matching mechanism".  A redirect is never
\* followed when a mechanism matched.
C6_RedirectOnlyWithoutMatch ==
    \A i \in 1..Len(stack) :
        LET f == stack[i]
            redirect == FindRedirect(f.modifiers)
        IN  /\ (Returned(f) /\ NoMechanismMatched(f)) =>
                  IF redirect # None
                  THEN /\ f.redir # NoResult
                       /\ f.redir.tag = "Ok" =>
                             f.res = SimOk(f.redir.result, f.redir.reasons,
                                           OwnLookups(f) + f.redir.lookups)
                  ELSE /\ f.redir = NoResult
                       /\ f.res = SimOk("neutral", <<"no matching mechanism">>,
                                        OwnLookups(f))
            /\ f.pc = "wait_redir" =>
                  /\ NoMechanismMatched(f)
                  /\ redirect # None
                  /\ i < Len(stack)
                  /\ stack[i + 1].domain = redirect[1]
                  /\ stack[i + 1].ip = f.ip
            /\ (f.pc = "wait_redir" \/ f.redir # NoResult) =>
                  \A j \in 1..Len(f.hist) : ~Matched(f.hist[j])

\* x has a lookup mechanism that did not match and a redirect to y, whose
\* record fails the IP: fail, with the two TXT fetches and the lookup of x
C6_Witness ==
    /\ Done
    /\ NoMechanismMatched(stack[1])
    /\ Len(stack[1].hist) = 1
    /\ stack[1].redir.tag = "Ok"
    /\ stack[1].redir.result = "fail"
    /\ stack[1].redir.lookups = 1
    /\ simResult = SimOk("fail", <<<<"matched mechanism", NameAll>>>>, 3)

\* the mechanism met a DNS failure: its arm returned an Err that is not the
\* lookup limit's
DnsFailed(h) == h.r.tag = "Err" /\ h.r.msg # "lookup limit"

\* C7, as stated: a DNS failure met while evaluating a mechanism makes the
\* whole call return Err.
C7_DnsFailureAbortsCall ==
    (Done /\ \E j \in 1..Len(stack[1].hist) : DnsFailed(stack[1].hist[j]))
        => simResult.tag = "Err"

\* C7, amended: a DNS failure met while evaluating an a, mx, ptr, include or
\* exists mechanism ends the evaluation of that record with the verdict
\* permerror and the reason "lookup limit reached", and the call does not
\* return Err for it; simulate_spf returns Err only from before its loop or
\* from its redirect.
C7_DnsFailureGivesPermerror ==
    /\ \A f \in Frames :
          /\ \A j \in 1..Len(f.hist) :
                DnsFailed(f.hist[j]) =>
                    /\ j = Len(f.hist)
                    /\ Returned(f)
                    /\ f.res = SimOk("permerror", <<"lookup limit reached">>,
                                     f.hist[j].lookups)
          /\ (Returned(f) /\ f.res.tag = "Err") =>
                /\ \A j \in 1..Len(f.hist) : ~DnsFailed(f.hist[j])
                /\ f.idx = 0 \/ f.redir.tag = "Err"
    /\ (Done /\ \E j \in 1..Len(stack[1].hist) : DnsFailed(stack[1].hist[j]))
          => simResult.tag = "Ok" /\ simResult.result = "permerror"

\* the TXT fetch of an included domain failed
C7_Witness ==
    /\ Done
    /\ Len(stack[1].hist) = 1
    /\ IsInclude(stack[1], stack[1].hist[1])
    /\ stack[1].hist[1].sub.tag = "Err"
    /\ DnsFailed(stack[1].hist[1])
    /\ simResult = SimOk("permerror", <<"lookup limit reached">>, 2)

\* C8: build_spf_graph terminates on every finite zone, the zones whose
\* include and redirect edges form cycles included: every fair behaviour
\* reaches the return of build_spf_graph.
C8_GraphTerminates == <>GraphReturned

HasEdge(es, from, to, edge_type) ==
    \E i \in 1..Len(es) : es[i] = SPFGraphEdge(from, to, edge_type)

\* the walk of a cycle of length three, x to y to z to x, has returned
C8_Witness ==
    /\ gresult.tag = "Ok"
    /\ HasEdge(gresult.edges, NameX, NameY, "include")
    /\ HasEdge(gresult.edges, NameY, NameZ, "redirect")
    /\ HasEdge(gresult.edges, NameZ, NameX, "include")
    /\ gresult.cyclic

NodesDistinct(ns) ==
    \A i, j \in 1..Len(ns) : ns[i].domain = ns[j].domain => i = j

\* walk is about to run on a domain that is in the visited set
Revisiting ==
    /\ gstack # <<>>
    /\ GTop.pc = "enter"
    /\ GTop.depth <= MaxGraphDepth
    /\ GTop.domain \in visited

SelfIncludes(es) ==
    {es[i].from : i \in {k \in 1..Len(es) : /\ es[k].edge_type = "include"
                                            /\ es[k].from = es[k].to}}

C10_GraphNeverFails ==
    (GraphReturned /\ resolverOk) => gresult.tag = "Ok"


(***************************************************************************)
(* Claims about resolve_chain_for_host.                                    *)
(***************************************************************************)

\* the result resolve_chain_for_host returned
ChainResult == hc.result[1]

\* no lookup of the call brought an answer: the name has no DNS records
NoRecordsAnywhere == \A i \in 1..Len(hc.asked) : ~hc.asked[i].got

\* C11: for a non-empty normalized hostname, the returned error is "no
\* CNAME/A/AAAA records found" exactly when the returned chain is the query
\* name alone and both the IPv4 and the IPv6 set are empty; a name without
\* any DNS record returns that error and a chain of length 1.
C11_UnresolvedIffNothingFound ==
    (ChainDone /\ NormalizeDomain(hc.host) # <<>>) =>
        /\ (ChainResult.error = Some(NoRecordsError)) <=>
               (/\ ChainResult.chain = <<NormalizeDomain(hc.host)>>
                /\ ChainResult.ipv4 = <<>>
                /\ ChainResult.ipv6 = <<>>)
        /\ ChainResult.error \in {None, Some(NoRecordsError)}
        /\ NoRecordsAnywhere =>
               (ChainResult.error = Some(NoRecordsError) /\ Len(ChainResult.chain) = 1)

\* a call whose every lookup came back empty returned, with DoH endpoints
\* configured and the PTR lookups enabled
C11_Witness ==
    /\ ChainDone
    /\ NormalizeDomain(hc.host) # <<>>
    /\ hc.doh_endpoints # <<>>
    /\ NoRecordsAnywhere
    /\ Len(hc.asked) >= 6
    /\ ChainResult.error = Some(NoRecordsError)


\* the queries of kind q the call made, in order
RECURSIVE AskedOf(_, _)
AskedOf(asked, q) ==
    IF asked = <<>> THEN <<>>
    ELSE IF Head(asked).q = q THEN <<Head(asked)>> \o AskedOf(Tail(asked), q)
    ELSE AskedOf(Tail(asked), q)

\* the IP texts of a list that are IP addresses, in order
RECURSIVE ParseableIps(_)
ParseableIps(ips) ==
    IF ips = <<>> THEN <<>>
    ELSE IF ParseIpAddr(Head(ips)) = None THEN ParseableIps(Tail(ips))
    ELSE <<Head(ips)>> \o ParseableIps(Tail(ips))

\* the reverse lookups of the call that brought names, as result entries
RECURSIVE PtrArgsWithNames(_)
PtrArgsWithNames(ptrs) ==
    IF ptrs = <<>> THEN <<>>
    ELSE IF Head(ptrs).got THEN <<Head(ptrs).arg>> \o PtrArgsWithNames(Tail(ptrs))
    ELSE PtrArgsWithNames(Tail(ptrs))

\* C12: resolve_chain_for_host always returns a result object: a failure or
\* a timeout of one sub-lookup (primary CNAME, DoH, A, AAAA, PTR) is no
\* answer for that step only.  No state of a call is stuck; after the CNAME
\* loop, however it went, the A and the AAAA lookup are both made; the answer
\* of one address family is used whatever the other came to; a family left
\* empty gets its DoH fallback; and unless PTR lookups are disabled every
\* returned IP that is an address gets its reverse lookup, whatever the
\* earlier reverse lookups came to, and every one that brought names has
\* its entry in reverse_hostnames.
C12_SubLookupFailuresAreLocal ==
    /\ (hc.pc \notin {"idle", "done"}) => ENABLED NextChain
    /\ ChainDone =>
          /\ hc.result # None
          /\ ChainResult.name = NormalizeDomain(hc.host)
          /\ ChainResult.name = <<>> <=> ChainResult.error = Some(EmptyHostnameError)
    /\ (ChainDone /\ NormalizeDomain(hc.host) # <<>>) =>
          /\ Len(AskedOf(hc.asked, "cname")) >= 1
          /\ Len(AskedOf(hc.asked, "a")) = 1
          /\ Len(AskedOf(hc.asked, "aaaa")) = 1
          /\ AskedOf(hc.asked, "a")[1].arg = ChainResult.terminal
          /\ AnswerOf(hc.v4) # <<>> => ChainResult.ipv4 = Unique(AnswerOf(hc.v4))
          /\ AnswerOf(hc.v6) # <<>> => ChainResult.ipv6 = Unique(AnswerOf(hc.v6))
          /\ AnswerOf(hc.v4) = <<>> => Len(AskedOf(hc.asked, "doh_a")) = 1
          /\ AnswerOf(hc.v6) = <<>> => Len(AskedOf(hc.asked, "doh_aaaa")) = 1
          /\ LET ptrs == AskedOf(hc.asked, "ptr")
                 ips == ParseableIps(ChainResult.ipv4 \o ChainResult.ipv6)
             IN  IF hc.disable_ptr_lookups
                 THEN ptrs = <<>> /\ ChainResult.reverse_hostnames = <<>>
                 ELSE /\ [i \in 1..Len(ptrs) |-> ptrs[i].arg] = ips
                      /\ [i \in 1..Len(ChainResult.reverse_hostnames) |->
                             ChainResult.reverse_hostnames[i].ip] = PtrArgsWithNames(ptrs)

\* a call returned whose primary CNAME lookup and A lookup timed out, whose
\* AAAA lookup answered, and whose first reverse lookup failed while a later
\* one brought names
C12_Witness ==
    /\ ChainDone
    /\ AskedOf(hc.asked, "cname") # <<>>
    /\ ~AskedOf(hc.asked, "cname")[1].got
    /\ hc.v4 = LookupTimeout
    /\ AnswerOf(hc.v6) # <<>>
    /\ ChainResult.ipv6 # <<>>
    /\ ChainResult.error = None
    /\ Len(AskedOf(hc.asked, "ptr")) >= 2
    /\ ~AskedOf(hc.asked, "ptr")[1].got
    /\ AskedOf(hc.asked, "ptr")[2].got
    /\ ChainResult.reverse_hostnames # <<>>


(***************************************************************************)
(* Claims about resolve_topology_batch and the host cache.                 *)
(***************************************************************************)

\* the items of a sequence
Range(seq) == {seq[i] : i \in 1..Len(seq)}

\* call c has returned Ok
ReturnedOk(c) == calls[c].pc = "done" /\ calls[c].result[1].tag = "Ok"

\* call d has resolved the host: a task of it handed over a result for it
HasResolved(d, host) == \E i \in 1..Len(calls[d].cache_updates) :
                            calls[d].cache_updates[i][1] = host

\* the result call d has for the host from its tasks: the last handed over
UpdateOf(d, host) ==
    LET last == CHOOSE i \in 1..Len(calls[d].cache_updates) :
                    /\ calls[d].cache_updates[i][1] = host
                    /\ \A j \in (i + 1)..Len(calls[d].cache_updates) :
                           calls[d].cache_updates[j][1] # host
    IN  calls[d].cache_updates[last][2]

\* call c was made with the options of call d for a host that d has
\* resolved, after d returned and within the TTL of d's cache write
SecondCallWithinTtl(d, c, host) ==
    /\ d \in calls[c].after
    /\ calls[c].pc \notin {"idle", "read_wait", "reading"}
    /\ calls[c].cfg = calls[d].cfg
    /\ HasResolved(d, host)
    /\ host \in Range(calls[c].unique_hosts)
    /\ calls[c].now_ms - calls[d].write_ts <= TOPOLOGY_HOST_CACHE_TTL_MS

\* call c answers the host from the cache with the result of call d: no
\* task is spawned for it and the returned resolutions hold d's result
AnsweredFromCache(d, c, host) ==
    /\ host \notin Range(calls[c].spawned)
    /\ host \in DOMAIN calls[c].hits
    /\ calls[c].hits[host] = UpdateOf(d, host)
    /\ ReturnedOk(c) => UpdateOf(d, host) \in Range(calls[c].result[1].resolutions)

\* C13 as stated: a second call for a host that a first call has resolved,
\* with the same options and started within the TTL of the first call's
\* cache write, returns the cached result and spawns no resolution for the
\* host.
C13_SecondCallWithinTtlHits ==
    \A d \in Calls, c \in Calls, host \in {HostA, HostB, HostC} :
        SecondCallWithinTtl(d, c, host) => AnsweredFromCache(d, c, host)

\* the step of call c is its read pass
IsReadPass(c) == calls[c].pc = "reading" /\ calls'[c].pc = "resolve"

\* the write pass of call d has evicted the entry of the host
Evicted(d, host) == \E e \in calls[d].evicted : e[1] = CacheKey(calls[d].cfg, host)

\* C13, amended: the second call answers the host from the cache when the
\* entry of the first call is still there: an entry the cache holds at the
\* read pass that is no older than the TTL at the call's now_ms is taken as
\* the host's result and no task is ever spawned for the host, and the
\* entry of a first call that returned before is there unless that call's
\* capacity eviction removed it.
C13_FreshEntryIsHit ==
    /\ [][\A c \in Calls : IsReadPass(c) =>
             \A i \in 1..Len(calls[c].unique_hosts) :
                 LET host == calls[c].unique_hosts[i]
                     cache_key == CacheKey(calls[c].cfg, host)
                 IN  (/\ cache_key \in DOMAIN cache
                      /\ calls[c].now_ms - cache[cache_key].ts_ms
                             <= TOPOLOGY_HOST_CACHE_TTL_MS)
                     => /\ host \in DOMAIN calls'[c].hits
                        /\ calls'[c].hits[host] = cache[cache_key].value
                        /\ host \notin Range(calls'[c].unresolved_hosts)]_vars
    /\ [](\A c \in Calls :
             /\ Range(calls[c].spawned) \subseteq Range(calls[c].unresolved_hosts)
             /\ \A host \in DOMAIN calls[c].hits :
                   /\ host \notin Range(calls[c].spawned)
                   /\ ReturnedOk(c) =>
                          calls[c].hits[host] \in Range(calls[c].result[1].resolutions))
    /\ [](\A d \in Calls, c \in Calls, host \in {HostA, HostB, HostC} :
             (SecondCallWithinTtl(d, c, host) /\ ~Evicted(d, host))
                 => AnsweredFromCache(d, c, host))

\* a second call, made after the first returned and within the TTL of its
\* write, has returned the first call's result for the host a without a task
C13_Witness ==
    /\ SecondCallWithinTtl(1, 2, HostA)
    /\ Len(calls[1].unique_hosts) = 3
    /\ calls[1].evicted # {}
    /\ ~Evicted(1, HostA)
    /\ calls[2].now_ms > calls[1].write_ts
    /\ ReturnedOk(2)
    /\ calls[2].spawned = <<>>
    /\ calls[2].result[1].resolutions = <<UpdateOf(1, HostA)>>
    /\ UpdateOf(1, HostA).error = None


\* the index at which a normalized name is first seen in the hostnames
FirstSeenAt(hostnames, name) ==
    CHOOSE i \in 1..Len(hostnames) :
        /\ NormalizeDomain(hostnames[i]) = name
        /\ \A j \in 1..(i - 1) : NormalizeDomain(hostnames[j]) # name

\* seq holds the distinct non-empty normalized hostnames, each once, in the
\* order in which they are first seen
IsFirstSeenOrder(seq, hostnames) ==
    /\ Range(seq) = {NormalizeDomain(h) : h \in Range(hostnames)} \ {<<>>}
    /\ \A i \in 1..Len(seq), j \in 1..Len(seq) :
           i < j => FirstSeenAt(hostnames, seq[i]) < FirstSeenAt(hostnames, seq[j])

\* the values call c got for a host: from the cache or from its tasks
ValuesFor(c, host) ==
    (IF host \in DOMAIN calls[c].hits THEN {calls[c].hits[host]} ELSE {}) \cup
    {calls[c].cache_updates[i][2] :
        i \in {j \in 1..Len(calls[c].cache_updates) : calls[c].cache_updates[j][1] = host}}

\* the positions of unique_hosts for which call c has a value
Answered(c) == {i \in 1..Len(calls[c].unique_hosts) :
                   ValuesFor(c, calls[c].unique_hosts[i]) # {}}

\* the i-th smallest member of a set of numbers
RECURSIVE Nth(_, _)
Nth(set, i) ==
    LET least == CHOOSE x \in set : \A y \in set : x <= y
    IN  IF i = 1 THEN least ELSE Nth(set \ {least}, i - 1)

\* C14: the resolutions of a call that returned hold at most one entry for
\* each distinct normalized hostname, in the order in which the hostnames
\* are first seen in the input, whatever the order in which the tasks
\* completed and whichever values came from the cache: the entries are the
\* values of the answered hosts in first-seen order, one each; when every
\* normalized hostname is a name (normalizing it again changes nothing)
\* each has its entry, under its name; and [b, a, b] gives [b, a].
C14_ResolutionsInFirstSeenOrder ==
    \A c \in Calls : ReturnedOk(c) =>
        LET call == calls[c]
            res == call.result[1].resolutions
        IN  /\ IsFirstSeenOrder(call.unique_hosts, call.req.hostnames)
            /\ Len(res) = Cardinality(Answered(c))
            /\ \A i \in 1..Len(res) :
                   res[i] \in ValuesFor(c, call.unique_hosts[Nth(Answered(c), i)])
            /\ (\A i \in 1..Len(call.unique_hosts) :
                    NormalizeDomain(call.unique_hosts[i]) = call.unique_hosts[i])
               => [i \in 1..Len(res) |-> res[i].name] = call.unique_hosts
            /\ call.req.hostnames = <<HostB, HostA, HostB>>
               => [i \in 1..Len(res) |-> res[i].name] = <<HostB, HostA>>

\* a call for a, b, c has returned that took a from the cache and whose
\* task for c completed before its task for b
C14_Witness ==
    /\ ReturnedOk(1)
    /\ calls[1].req.hostnames = <<HostA, HostB, HostC>>
    /\ DOMAIN calls[1].hits = {HostA}
    /\ [i \in 1..Len(calls[1].cache_updates) |-> calls[1].cache_updates[i][1]]
           = <<HostC, HostB>>
    /\ [i \in 1..3 |-> calls[1].result[1].resolutions[i].name] = <<HostA, HostB, HostC>>


\* the cache holds an entry for the host under the options of call c that
\* is older than the TTL at the call's now_ms
HasStaleEntry(c, host) ==
    LET cache_key == CacheKey(calls[c].cfg, host)
    IN  /\ cache_key \in DOMAIN cache
        /\ calls[c].now_ms - cache[cache_key].ts_ms > TOPOLOGY_HOST_CACHE_TTL_MS

\* C15: the read pass treats an entry older than the TTL as a miss, though
\* the entry has not been swept: the host goes to unresolved_hosts, not to
\* the hits, and every unresolved host of a call that returned had its
\* resolution task; and the steps of a call up to the end of its read pass
\* leave the cache as it is.
C15_StaleEntryIsMiss ==
    /\ [][\A c \in Calls : IsReadPass(c) =>
             \A host \in Range(calls[c].unique_hosts) :
                 HasStaleEntry(c, host) =>
                     /\ host \in Range(calls'[c].unresolved_hosts)
                     /\ host \notin DOMAIN calls'[c].hits]_vars
    /\ [][\A c \in Calls :
             (calls[c].pc \in {"idle", "read_wait", "reading"} /\ calls'[c] # calls[c])
                 => cache' = cache]_vars
    /\ [](\A c \in Calls :
             ReturnedOk(c) => Range(calls[c].spawned) = Range(calls[c].unresolved_hosts))

\* the second call has a resolution for the host a in flight while the
\* cache still holds the first call's entry for a, older than the TTL
C15_Witness ==
    /\ calls[2].pc = "join"
    /\ calls[2].spawned = <<HostA>>
    /\ HasStaleEntry(2, HostA)
    /\ HasResolved(1, HostA)
    /\ cache[CacheKey(calls[2].cfg, HostA)].value = UpdateOf(1, HostA)


\* the step of call c is the end of its write pass
EndsWritePass(c) == calls[c].pc = "evict" /\ calls'[c].pc = "reassemble"

\* C16: a write pass leaves a cache without an entry older than the TTL
\* relative to the pass's write_ts and with at most
\* TOPOLOGY_HOST_CACHE_MAX_ENTRIES entries; the capacity eviction removes
\* entries only, no more than needed, and none with a timestamp later than
\* that of an entry it keeps; and outside a write pass the cache never holds
\* more entries than the capacity.
C16_WritePassBoundsCache ==
    /\ [][\A c \in Calls : EndsWritePass(c) =>
             /\ \A k \in DOMAIN cache' :
                    calls[c].write_ts - cache'[k].ts_ms <= TOPOLOGY_HOST_CACHE_TTL_MS
             /\ Cardinality(DOMAIN cache') <= TOPOLOGY_HOST_CACHE_MAX_ENTRIES
             /\ DOMAIN cache' \subseteq DOMAIN cache
             /\ \A k \in DOMAIN cache' : cache'[k] = cache[k]
             /\ DOMAIN cache' # DOMAIN cache =>
                    Cardinality(DOMAIN cache') = TOPOLOGY_HOST_CACHE_MAX_ENTRIES
             /\ \A k \in DOMAIN cache \ DOMAIN cache', x \in DOMAIN cache' :
                    cache[k].ts_ms <= cache'[x].ts_ms]_vars
    /\ [](writer = NoCall =>
             Cardinality(DOMAIN cache) <= TOPOLOGY_HOST_CACHE_MAX_ENTRIES)
    /\ [](\A c \in Calls : calls[c].pc = "evict" =>
             \A k \in DOMAIN cache :
                 calls[c].write_ts - cache[k].ts_ms <= TOPOLOGY_HOST_CACHE_TTL_MS)

\* the write pass of the second call has evicted an entry older than its
\* own and left the cache full with its entry in it
C16_Witness ==
    /\ calls[2].pc = "reassemble"
    /\ \E e \in calls[2].evicted : e[2] < calls[2].write_ts
    /\ Cardinality(DOMAIN cache) = TOPOLOGY_HOST_CACHE_MAX_ENTRIES
    /\ \E k \in DOMAIN cache : cache[k].ts_ms = calls[2].write_ts
    /\ \E k \in DOMAIN cache : cache[k].ts_ms < calls[2].write_ts


\* call c is in its read pass
InReadPass(c) == calls[c].pc = "reading"

\* call c is in its write pass: between the grant of the write guard and
\* its drop
InWritePass(c) == calls[c].pc \in {"sweep", "evict"}

\* C17: the write pass is exclusive: while a call is in it, it holds the
\* write guard, no read guard is alive and no other call is in a read pass
\* or a write pass; the cache changes only in the steps of a write pass, so
\* a call in its read pass sees the cache as a completed write pass left
\* it, never above the capacity; read passes can overlap (the witness).
C17_WritePassExclusive ==
    /\ [](\A c \in Calls : InWritePass(c) =>
             /\ writer = c
             /\ readers = {}
             /\ \A d \in Calls \ {c} : ~InReadPass(d) /\ ~InWritePass(d))
    /\ [](\A c \in Calls : InReadPass(c) =>
             /\ c \in readers
             /\ writer = NoCall
             /\ Cardinality(DOMAIN cache) <= TOPOLOGY_HOST_CACHE_MAX_ENTRIES)
    /\ [][cache' # cache =>
             \E c \in Calls :
                 /\ calls[c].pc \in {"write_wait", "sweep", "evict"}
                 /\ calls'[c].pc \in {"sweep", "evict", "reassemble"}
                 /\ \A d \in Calls \ {c} : calls'[d] = calls[d] /\ ~InReadPass(d)]_vars

\* the read passes of the two calls overlapped, and now the first call is
\* in its write pass, the cache above the capacity, while the second call
\* waits for the write guard
C17_Witness ==
    /\ calls[2].beside = {1}
    /\ calls[1].pc = "sweep"
    /\ calls[2].pc = "write_wait"
    /\ writer = 1
    /\ Cardinality(DOMAIN cache) > TOPOLOGY_HOST_CACHE_MAX_ENTRIES


\* C18: at most resolve_parallelism chain resolutions of a call are in
\* flight at any time; the tasks in flight are tasks of one chunk, spawned
\* and not yet joined; and tasks are spawned only when none is in flight,
\* at most a chunk of them, for the hosts that follow those spawned before.
C18_ChunkedResolutions ==
    /\ [](\A c \in Calls :
             /\ Cardinality(calls[c].inflight) <= resolve_parallelism
             /\ calls[c].inflight \subseteq 1..Len(calls[c].spawned)
             /\ calls[c].spawned =
                    SubSeq(calls[c].unresolved_hosts, 1, Len(calls[c].spawned))
             /\ \A i \in calls[c].inflight :
                    Len(calls[c].spawned) - i < resolve_parallelism)
    /\ [][\A c \in Calls : calls'[c].spawned # calls[c].spawned =>
             /\ calls[c].inflight = {}
             /\ Len(calls'[c].spawned) - Len(calls[c].spawned) <= resolve_parallelism
             /\ calls'[c].inflight = (Len(calls[c].spawned) + 1)..Len(calls'[c].spawned)]_vars

\* the task of the second chunk is in flight, after the two tasks of the
\* first chunk have both completed
C18_Witness ==
    /\ calls[1].pc = "join"
    /\ Len(calls[1].unresolved_hosts) = resolve_parallelism + 1
    /\ calls[1].spawned = calls[1].unresolved_hosts
    /\ calls[1].inflight = {resolve_parallelism + 1}
    /\ Len(calls[1].cache_updates) = resolve_parallelism


\* the distinct non-empty normalized service hosts of call c
ServiceHosts(c) ==
    {NormalizeDomain(h) : h \in Range(UnwrapOr(calls[c].req.service_hosts, <<>>))}
        \ {<<>>}

\* the outcomes of the probes call c made of the host with a scheme
ProbesOf(c, scheme, host) ==
    {i \in 1..Len(calls[c].probed) :
        calls[c].probed[i][1] = scheme /\ calls[c].probed[i][2] = host}

\* C19: the probes of a call that returned hold exactly one
\* ServiceProbeResult for each distinct non-empty normalized service host,
\* in any order; the host was probed once over https and once over http and
\* the entry carries the two outcomes; and at most probe_parallelism hosts
\* of a call are being probed at any time.
C19_OneProbeResultPerHost ==
    \A c \in Calls :
        /\ Cardinality(calls[c].probing) <= probe_parallelism
        /\ ReturnedOk(c) =>
              LET probes == calls[c].result[1].probes
              IN  /\ {probes[i].host : i \in 1..Len(probes)} = ServiceHosts(c)
                  /\ Len(probes) = Cardinality(ServiceHosts(c))
                  /\ Len(calls[c].probed) = 2 * Len(probes)
                  /\ \A i \in 1..Len(probes) :
                        /\ \E j \in ProbesOf(c, "https", probes[i].host) :
                               /\ ProbesOf(c, "https", probes[i].host) = {j}
                               /\ probes[i].https_up = calls[c].probed[j][3]
                        /\ \E j \in ProbesOf(c, "http", probes[i].host) :
                               /\ ProbesOf(c, "http", probes[i].host) = {j}
                               /\ probes[i].http_up = calls[c].probed[j][3]

\* a call with five service hosts, three of them distinct and one empty,
\* has returned three probe results, not in the order of the input, one of
\* them up over https and down over http
C19_Witness ==
    /\ ReturnedOk(1)
    /\ Len(UnwrapOr(calls[1].req.service_hosts, <<>>)) = 5
    /\ Len(calls[1].result[1].probes) = 3
    /\ [i \in 1..3 |-> calls[1].result[1].probes[i].host] = << <<"t">>, <<"s">>, <<"u">> >>
    /\ calls[1].result[1].probes[2].https_up
    /\ ~calls[1].result[1].probes[2].http_up


\* the step of call c begins its write pass
BeginsWritePass(c) == calls'[c].writes = calls[c].writes + 1

\* C20: a call modifies the cache at most once: it begins at most one write
\* pass, only after a task was spawned for every unresolved host and every
\* task was joined, and the cache changes only in the steps of the write
\* pass of the call that holds the write guard; a call without unresolved
\* hosts (every hostname a hit, or no hostname) never changes the cache.
C20_OneWritePassPerCall ==
    /\ [](\A c \in Calls :
             /\ calls[c].writes <= 1
             /\ calls[c].writes = 1 => calls[c].unresolved_hosts # <<>>)
    /\ [][\A c \in Calls : BeginsWritePass(c) =>
             /\ calls[c].inflight = {}
             /\ calls[c].spawned = calls[c].unresolved_hosts
             /\ Len(calls[c].cache_updates) = Len(calls[c].spawned)
             /\ calls'[c].spawned = calls[c].spawned
             /\ calls'[c].pc = "sweep"]_vars
    /\ [][cache' # cache =>
             \E c \in Calls :
                 /\ calls'[c] # calls[c]
                 /\ calls'[c].writes = 1
                 /\ calls'[c].pc \in {"sweep", "evict", "reassemble"}
                 /\ writer' = c \/ writer = c]_vars
    /\ [][\A c \in Calls :
             (calls'[c] # calls[c] /\ calls'[c].unresolved_hosts = <<>>)
                 => cache' = cache]_vars

\* the first call has made its one write pass after its two chunks, and a
\* second call whose only hostname was a hit has returned without one
C20_Witness ==
    /\ ReturnedOk(1)
    /\ calls[1].writes = 1
    /\ Len(calls[1].spawned) = 3
    /\ ReturnedOk(2)
    /\ calls[2].unique_hosts = <<HostA>>
    /\ DOMAIN calls[2].hits = {HostA}
    /\ calls[2].writes = 0
    /\ \A k \in DOMAIN cache : cache[k].ts_ms = calls[1].write_ts

(***************************************************************************)
(* The claim about query_doh_records.                                      *)
(***************************************************************************)

\* the tasks handed out by join_next brought no answer
NoAnswer(joined) == joined.tag = "err" \/ joined.val = None

\* the places in the order of completion where a task brought an answer
AnswersAt(d) == {k \in 1..Len(d.completed) : ~NoAnswer(d.completed[k].joined)}

\* C21: a query starts tasks for at most the first three endpoints; a
\* non-empty answer it returns is that of the first task to complete with
\* one, and the tasks still running then are aborted and complete no more;
\* it returns the empty answer only without endpoints or when every task it
\* started has completed without an answer.
C21_DohRaceFirstAnswer ==
    /\ Len(doh.spawned) <= 3
    /\ Len(doh.spawned) <= Len(doh.doh_endpoints)
    /\ \A i \in 1..Len(doh.spawned) : doh.spawned[i] = doh.doh_endpoints[i]
    /\ doh.pc = "done" =>
          LET out == doh.result[1]
              done == {doh.completed[k].task : k \in 1..Len(doh.completed)}
          IN  /\ doh.running = {}
              /\ doh.aborted = (1..Len(doh.spawned)) \ done
              /\ out # <<>> =>
                    /\ AnswersAt(doh) # {}
                    /\ \E k \in AnswersAt(doh) :
                          /\ \A j \in AnswersAt(doh) : k <= j
                          /\ doh.completed[k].joined = JoinOk(Some(out))
              /\ out = <<>> =>
                    /\ AnswersAt(doh) = {}
                    /\ doh.aborted = {}
                    /\ doh.doh_endpoints # <<>> =>
                          /\ doh.spawned # <<>>
                          /\ done = 1..Len(doh.spawned)

\* a query over four endpoints has returned the answer of the task that
\* completed second, the first having failed, and has aborted the third
C21_Witness ==
    /\ doh.pc = "done"
    /\ Len(doh.doh_endpoints) = 4
    /\ Len(doh.completed) = 2
    /\ NoAnswer(doh.completed[1].joined)
    /\ doh.result = Some(<< <<"b">> >>)
    /\ Cardinality(doh.aborted) = 1

(***************************************************************************)
(* The claim about the chain of resolve_chain_for_host.                    *)
(***************************************************************************)

\* the chain of the call is a path of distinct names from the normalized
\* query name, no longer than the turns of the loop allow, and once the call
\* has returned its last name is the terminal
ChainIsPath ==
    NormalizeDomain(hc.host) # <<>> =>
        /\ hc.hops <= hc.max_hops
        /\ Len(hc.chain) <= hc.max_hops + 1
        /\ \A i, j \in 1..Len(hc.chain) : hc.chain[i] = hc.chain[j] => i = j
        /\ Len(AskedOf(hc.asked, "cname")) <= hc.max_hops
        /\ ChainDone =>
              /\ ChainResult.chain = hc.chain
              /\ ChainResult.chain # <<>>
              /\ ChainResult.chain[1] = NormalizeDomain(hc.host)
              /\ ChainResult.chain[1] = ChainResult.name
              /\ ChainResult.chain[Len(ChainResult.chain)] = ChainResult.terminal

\* C22: the chain returned for a non-empty name starts with the normalized
\* query name, holds no name twice, has at most max_hops + 1 elements and
\* ends with the terminal name; the CNAME loop makes at most max_hops
\* lookups and the call returns, whatever cycle the CNAME answers form.
C22_ChainIsSimplePath == []ChainIsPath /\ <>ChainDone

\* a call with two hops allowed returned a chain of two names: the lookup of
\* the second name brought a name again, one already in the chain
C22_Witness ==
    /\ ChainDone
    /\ hc.max_hops = 2
    /\ Len(ChainResult.chain) = 2
    /\ Len(AskedOf(hc.asked, "cname")) = 2
    /\ AskedOf(hc.asked, "cname")[2].got
    /\ ChainResult.terminal = ChainResult.chain[2]

(***************************************************************************)
(* The claim about the lookup counter of eval_mechanism.                   *)
(***************************************************************************)

\* the counter of the frame before the k-th mechanism it evaluated: what
\* get_spf_record left, or what the mechanism before left
CounterBefore(f, k) == IF k = 1 THEN 1 ELSE f.hist[k - 1].lookups

\* the names eval_mechanism has an arm for
KnownMechanisms == LookupMechanisms \cup {NameIp4, NameIp6, NameAll}

\* C23: in every activation of simulate_spf a mechanism other than a, mx,
\* ptr, include and exists leaves the lookup counter as it was; a, mx, ptr
\* and exists add one; include adds one before its nested call is made and
\* the nested call's count after it returned; a mechanism of an unknown
\* name comes to Ok(None) and the loop goes on to the next mechanism.
C23_OnlyLookupMechanismsCount ==
    \A f \in Frames :
        /\ \A k \in 1..Len(f.hist) :
              LET h == f.hist[k]
                  m == f.mechanisms[h.idx]
                  before == CounterBefore(f, k)
              IN  /\ m.mechanism \notin LookupMechanisms => h.lookups = before
                  /\ m.mechanism \in DnsMechanisms => h.lookups = before + 1
                  /\ m.mechanism = NameInclude =>
                        h.lookups = before + 1 +
                            (IF h.sub.tag = "Ok" THEN h.sub.lookups ELSE 0)
                  /\ m.mechanism \notin KnownMechanisms =>
                        /\ h.r = EvalOk(None)
                        /\ k = Len(f.hist) => f.idx = h.idx + 1
        /\ f.pc = "wait_inc" =>
              /\ f.mechanisms[f.idx].mechanism = NameInclude
              /\ f.lookups = CounterBefore(f, Len(f.hist) + 1) + 1

\* the call on "v=spf1 foo include:y" has returned: foo left the counter at
\* 1, the include took it to 2 before its nested call and to 5 after it,
\* the record of y being "v=spf1 a a"
C23_Witness ==
    /\ Done
    /\ zone[NameX] = TxtOk(<<SpfText(<<FlatUnknown, TokIncludeY>>)>>)
    /\ zone[NameY] = TxtOk(<<SpfText(<<FlatA, FlatA>>)>>)
    /\ Len(stack[1].hist) = 2
    /\ stack[1].hist[1].lookups = 1
    /\ stack[1].hist[2].sub.lookups = 3
    /\ stack[1].hist[2].lookups = 5

(***************************************************************************)
(* The claim about parse_spf.                                              *)
(***************************************************************************)

HasEquals(part) == \E i \in 1..Len(part) : part[i] = "="

HasNoEquals(part) == ~HasEquals(part)

\* the place of the first c in the text
IsFirst(text, e, c) == e \in 1..Len(text) /\ text[e] = c /\ \A j \in 1..(e - 1) : text[j] # c

\* md is the modifier the claim describes for the token
IsModifierOf(part, md) ==
    \E e \in 1..Len(part) :
        /\ IsFirst(part, e, "=")
        /\ md.key = ToLower(SubSeq(part, 1, e - 1))
        /\ md.value = SubSeq(part, e + 1, Len(part))

\* mc is the mechanism the claim describes for the token
IsMechanismOf(part, mc) ==
    LET qualified == part # <<>> /\ part[1] \in {"+", "-", "~", "?"}
        core == IF qualified THEN Tail(part) ELSE part
    IN  /\ mc.qualifier = IF qualified THEN Some(part[1]) ELSE None
        /\ IF \E e \in 1..Len(core) : core[e] = ":"
           THEN \E e \in 1..Len(core) :
                   /\ IsFirst(core, e, ":")
                   /\ mc.mechanism = ToLower(SubSeq(core, 1, e - 1))
                   /\ mc.value = Some(SubSeq(core, e + 1, Len(core)))
           ELSE mc.mechanism = ToLower(core) /\ mc.value = None

\* C24: parse_spf returns None unless the trimmed, lowercased input starts
\* with "v=spf1"; otherwise the tokens with '=' give the modifiers, one
\* each and in their order, and the other tokens the mechanisms, one each
\* and in their order, each read as the claim describes.
C24_ParseSpfTokens ==
    ps.pc = "done" =>
        IF ~StartsWith(ToLower(Trim(ps.content)), VSpf1) THEN ps.out = None
        ELSE LET mods == SelectSeq(ps.parts, HasEquals)
                 mechs == SelectSeq(ps.parts, HasNoEquals)
             IN  /\ ps.out # None
                 /\ ps.out[1].version = VSpf1
                 /\ Len(ps.out[1].modifiers) = Len(mods)
                 /\ \A i \in 1..Len(mods) : IsModifierOf(mods[i], ps.out[1].modifiers[i])
                 /\ Len(ps.out[1].mechanisms) = Len(mechs)
                 /\ \A i \in 1..Len(mechs) : IsMechanismOf(mechs[i], ps.out[1].mechanisms[i])

\* "\t V=SpF1  ~IP4:1/1 \tRedirect=Y=z \t-all " was parsed: two mechanisms,
\* ip4 with its qualifier and value and all, and the modifier redirect
C24_Witness ==
    /\ ps.pc = "done"
    /\ ps.layout = "loose"
    /\ ps.tag = <<"V","=","S","p","F","1">>
    /\ ps.parts = << <<"~","I","P","4",":","1","/","1">>,
                     <<"R","e","d","i","r","e","c","t","=","Y","=","z">>,
                     <<"-","a","l","l">> >>
    /\ ps.out # None
    /\ ps.out[1].mechanisms =
           << [qualifier |-> Some("~"), mechanism |-> NameIp4,
               value |-> Some(<<"1","/","1">>)],
              [qualifier |-> Some("-"), mechanism |-> NameAll, value |-> None] >>
    /\ ps.out[1].modifiers = << [key |-> KeyRedirect, value |-> <<"Y","=","z">>] >>

(***************************************************************************)
(* The claim about the depth of the walk of build_spf_graph.               *)
(***************************************************************************)

NodeDomains == {nodes[i].domain : i \in 1..Len(nodes)}

\* C25: the walk goes no deeper than 10 edges from the root: a name more
\* than 10 include or redirect edges down the line from the root is never
\* asked for, never marked visited and never a node, and the graph has at
\* most 11 nodes however long the line is.
C25_WalkDepthBounded ==
    /\ \A i \in 11..MaxLine :
          /\ zone[LineName(i)] = Unknown
          /\ LineName(i) \notin visited
          /\ LineName(i) \notin NodeDomains
    /\ Len(nodes) <= 11
    /\ glookups <= 11
    /\ GraphReturned /\ gresult.tag = "Ok" => Len(gresult.nodes) <= 11

\* the graph of a line of more than 11 names has been returned: 11 nodes,
\* the last of them 10 edges from the root, and an edge to the name after
\* it, which is no node
C25_Witness ==
    /\ GraphReturned
    /\ gresult.tag = "Ok"
    /\ Len(gresult.nodes) = 11
    /\ gresult.nodes[11].domain = LineName(10)
    /\ \E i \in 1..Len(gresult.edges) : gresult.edges[i].to = LineName(11)
    /\ LineName(11) \notin NodeDomains
    /\ ~gresult.cyclic

(***************************************************************************)
(* The claim about the termination of simulate_spf.                        *)
(***************************************************************************)

\* C26: the recursion of simulate_spf through include and redirect is
\* bounded on every zone, one with cycles included: the activations nested
\* in one another are never more than the lookups the limit allows, one for
\* the outermost call and one for each of MaxLookups nested ones.
C26_RecursionBounded == Len(stack) <= MaxLookups + 1

(***************************************************************************)
(* The claim about the hosts of a batch and their entries.                 *)
(***************************************************************************)

\* the distinct non-empty normalized hostnames call c was asked for
RequestedHosts(c) ==
    {NormalizeDomain(h) : h \in Range(calls[c].req.hostnames)} \ {<<>>}

\* C27: every distinct non-empty normalized hostname of a call that
\* returned has exactly one entry in resolutions, and none is dropped:
\* normalizing a normalized hostname again gives the same name, so the key
\* a result is stored under is the key the output is put together with.
C27_EveryHostHasItsEntry ==
    \A c \in Calls : ReturnedOk(c) =>
        /\ \A host \in RequestedHosts(c) : NormalizeDomain(host) = host
        /\ Len(calls[c].result[1].resolutions) = Cardinality(RequestedHosts(c))

(***************************************************************************)
(* The claim about the cache key.                                          *)
(***************************************************************************)

\* C28: a call takes from the cache only what was written under its own
\* tuple of options and host: whenever the key of a host a call had a hit
\* for is the key of an update some call made, the two calls have the same
\* resolver mode, DNS server, DoH provider, DoH URL, hops and PTR flag, and
\* the two hosts are the same.
C28_HitOnlyUnderSameTuple ==
    \A c \in Calls, d \in Calls :
        \A host \in DOMAIN calls[c].hits :
            \A i \in 1..Len(calls[d].cache_updates) :
                CacheKey(calls[d].cfg, calls[d].cache_updates[i][1])
                        = CacheKey(calls[c].cfg, host)
                    => /\ calls[d].cfg = calls[c].cfg
                       /\ calls[d].cache_updates[i][1] = host

(***************************************************************************)
(* The claim about the guards and the tasks.                               *)
(***************************************************************************)

\* a resolution task or a probe task of call c is running
HasTaskInFlight(c) == calls[c].inflight # {} \/ calls[c].probing # {}

\* C29: a call holds no guard of the cache while one of its resolution or
\* probe tasks is in flight: with the read guard it has spawned no task
\* yet, with the write guard every resolution task it spawned has been
\* joined and no probe has started; and while a call has tasks in flight
\* the guards are free for the other call as far as that call is concerned
\* (a call waiting for a guard is kept waiting only by the other call's
\* read pass or write pass, never by its lookups).
C29_NoGuardAcrossLookups ==
    \A c \in Calls :
        /\ c \in readers \/ writer = c => ~HasTaskInFlight(c)
        /\ c \in readers => calls[c].spawned = <<>> /\ calls[c].probed = <<>>
        /\ writer = c =>
              /\ ChunksDone(calls[c])
              /\ calls[c].spawned = calls[c].unresolved_hosts
              /\ calls[c].probed = <<>>
        /\ HasTaskInFlight(c) =>
              \A d \in Calls \ {c} :
                  /\ calls[d].pc = "read_wait" => CanRead(writer)
                  /\ calls[d].pc = "write_wait" => CanWrite(readers, writer)

\* the first call has the tasks of its second chunk in flight while the
\* second call, which started after it, is inside its write pass
C29_Witness ==
    /\ calls[1].inflight # {}
    /\ Len(calls[1].spawned) > resolve_parallelism
    /\ writer = 2
    /\ calls[2].pc = "sweep"

(***************************************************************************)
(* The claim about the cyclic flag.                                        *)
(***************************************************************************)

\* the targets of the edges that leave a domain of S
EdgeTargets(es, S) == {es[i].to : i \in {k \in 1..Len(es) : es[k].from \in S}}

RECURSIVE ReachedFrom(_, _, _)
\* the domains reached from S along at most n further edges
ReachedFrom(es, S, n) ==
    IF n = 0 THEN S ELSE ReachedFrom(es, S \cup EdgeTargets(es, S), n - 1)

\* some domain is reached from itself along one edge or more
HasDirectedCycle(es) ==
    \E i \in 1..Len(es) :
        es[i].from \in ReachedFrom(es, EdgeTargets(es, {es[i].from}), Len(es))

\* C30: a returned graph has cyclic set only if its include and redirect
\* edges, which are the edges reachable from the root, hold a directed
\* cycle; a domain reached along two paths that close no cycle leaves the
\* flag unset.
C30_CyclicOnlyOnCycle ==
    gresult.tag = "Ok" /\ gresult.cyclic => HasDirectedCycle(gresult.edges)

====
